---- MODULE Spec2Model ----
(***************************************************************************)
(* Verification model of the execution core of ityfuzz (EVM part):        *)
(*   - the executor EVMExecutor::execute_abi / execute_from_pc (vm.rs),   *)
(*   - the concolic shadow ConcolicHost::on_step (concolic_host.rs),      *)
(*   - the taint shadow Sha3TaintAnalysis::on_step (sha3_bypass.rs),      *)
(*   - the expression trees of the concolic shadow (expr.rs).             *)
(* The interpreter itself (revm) and the host (evm/host.rs) are outside   *)
(* the modelled sources: one interpreter run is an input, drawn from a    *)
(* small set of run outcomes.                                             *)
(***************************************************************************)
EXTENDS Integers, Sequences, FiniteSets, TLC

VARIABLES
    \* ---- executor (vm.rs) ----
    pc,          \* position in execute: "idle", "run" (before a run_inspect of execute_from_pc)
    input,       \* the input handed to execute: [state, contract, repeat]
    vm_state,    \* execute_abi's local clone of the input's EVMState
    data,        \* execute_abi's call data for the next execute_from_pc
    cleanup,     \* execute_abi's cleanup flag
    host,        \* the FuzzHost fields the executor reads and writes
    loop_i,      \* completed iterations of the repeat loop of execute_from_pc
    cur_interp,  \* the local interp of execute_from_pc
    r_ret,       \* the local r of execute_from_pc
    exec_res,    \* the last IntermediateExecutionResult (Option)
    result,      \* the last ExecutionResult returned by execute (Option)
    \* ---- history variables of the current execute call ----
    input_at_call,  \* the input as it was when execute was called
    observed,       \* events the interpreter runs of this call raised
    run_writes,     \* storage slots the interpreter runs of this call wrote
    interp_ran,     \* whether run_inspect was invoked during this call
    run_count,      \* run_inspect calls of the current execute_from_pc
    last_run_ret,   \* the status of the last run_inspect
    \* ---- concolic shadow (concolic_host.rs) ----
    c_stack_len,      \* interp.stack.len() of the current call frame
    c_frames,         \* stack lengths of the suspended caller frames
    c_halt_op,        \* the halting opcode the current frame executed (-1: it runs)
    symbolic_stack,   \* ConcolicHost.symbolic_stack
    concolic_ctxs,    \* ConcolicHost.ctxs
    constraints,      \* ConcolicHost.constraints
    concolic_fatal,   \* the shadow panicked
    \* ---- taint shadow (sha3_bypass.rs) ----
    t_stack_len,      \* interp.stack.len() of the current call frame
    t_frames,         \* stack lengths of the suspended caller frames
    t_halt_op,        \* the halting opcode the current frame executed (-1: it runs)
    dirty_stack,      \* Sha3TaintAnalysis.dirty_stack
    taint_ctxs,       \* Sha3TaintAnalysis.ctxs
    tainted_jumpi,    \* Sha3TaintAnalysis.tainted_jumpi
    taint_fatal,      \* the shadow panicked
    t_last,           \* history: the last callback of the shadow and what it consumed
    \* ---- suspension and resumption of one frame (vm.rs) ----
    r_phase,          \* "running", "leaked" (suspended at a call), "resumed"
    r_interp,         \* the interpreter of the frame
    r_leak,           \* the SinglePostExecution captured at the call (Option)
    r_call,           \* history: the call instruction that leaked (Option)
    r_data,           \* history: the call data handed to the resumption (Option)
    r_fatal,          \* the resumption panicked
    \* ---- deployment (vm.rs) ----
    code,             \* host.code: the bytecode registered at each address
    deploy_res,       \* history: the last deploy call and what it returned (Option)
    \* ---- bypass observer (sha3_bypass.rs) ----
    b_stack,          \* interp.stack.data: the concrete stack of the frame
    b_seed,           \* host.randomness[0]
    b_last,           \* history: the last on_step, the stack before and after it
    b_fatal,          \* the observer panicked
    \* ---- expression trees (expr.rs) ----
    ex_tree,          \* the tree under construction (Option)
    ex_concrete,      \* what is_concrete returned on it (Option)
    \* ---- the two shadows on one opcode stream (concolic_host.rs, sha3_bypass.rs) ----
    sh_stack,         \* interp.stack.data of the current call frame
    sh_callers,       \* the stacks of the suspended caller frames
    sh_halted,        \* the current frame has executed its halting opcode
    sh_copied,        \* history: the bytes of memory a raw copy wrote last
    ch,               \* the ConcolicHost
    ta,               \* the Sha3TaintAnalysis
    sh_todo,          \* the instructions of the current block still to execute
    sh_blocks,        \* blocks of instructions started
    sh_last,          \* history: the last instruction the shadows observed
    \* ---- simplify on a tree (expr.rs) ----
    sx_tree,          \* the tree handed to simplify (Option)
    sx_once,          \* simplify of it (Option)
    sx_twice,         \* simplify of that (Option)
    \* ---- one opcode before both shadows ----
    lk_op,            \* the opcode observed (-1: none yet)
    lk_depth,         \* the call depth it is observed at
    lk_concolic,      \* ConcolicHost::on_step panicked on it
    lk_taint,         \* Sha3TaintAnalysis::on_step panicked on it
    \* ---- get_hash and eq of two world states (vm.rs) ----
    hs_a,             \* the first EVMState (Option)
    hs_b,             \* the second EVMState (Option)
    hs_hash_a,        \* get_hash of the first
    hs_hash_b,        \* get_hash of the second
    \* ---- data flow before the taint shadow (sha3_bypass.rs) ----
    fl_stack,         \* interp.stack.data
    fl_ta,            \* the Sha3TaintAnalysis
    fl_from,          \* which values the interpreter holds derive from a hash
    fl_via            \* history: the kinds of instruction such a value went through

exec_vars == <<pc, input, vm_state, data, cleanup, host, loop_i, cur_interp, r_ret,
               exec_res, result, input_at_call, observed, run_writes, interp_ran,
               run_count, last_run_ret>>
concolic_vars == <<c_stack_len, c_frames, c_halt_op, symbolic_stack,
                   concolic_ctxs, constraints, concolic_fatal>>
taint_vars == <<t_stack_len, t_frames, t_halt_op, dirty_stack,
                taint_ctxs, tainted_jumpi, taint_fatal, t_last>>
resume_vars == <<r_phase, r_interp, r_leak, r_call, r_data, r_fatal>>
deploy_vars == <<code, deploy_res>>
bypass_vars == <<b_stack, b_seed, b_last, b_fatal>>
expr_vars == <<ex_tree, ex_concrete>>
shadow_vars == <<sh_stack, sh_callers, sh_halted, sh_copied, ch, ta, sh_todo, sh_blocks,
                 sh_last>>
simp_vars == <<sx_tree, sx_once, sx_twice>>
lock_vars == <<lk_op, lk_depth, lk_concolic, lk_taint>>
hash_vars == <<hs_a, hs_b, hs_hash_a, hs_hash_b>>
flow_vars == <<fl_stack, fl_ta, fl_from, fl_via>>
vars == <<exec_vars, concolic_vars, taint_vars, resume_vars, deploy_vars, bypass_vars,
          expr_vars, shadow_vars, simp_vars, lock_vars, hash_vars, flow_vars>>
\* what the actions of one component leave alone
not_exec_vars == <<concolic_vars, taint_vars, resume_vars, deploy_vars, bypass_vars,
    expr_vars, shadow_vars, simp_vars, lock_vars, hash_vars, flow_vars>>
not_concolic_vars == <<exec_vars, taint_vars, resume_vars, deploy_vars, bypass_vars,
    expr_vars, shadow_vars, simp_vars, lock_vars, hash_vars, flow_vars>>
not_taint_vars == <<exec_vars, concolic_vars, resume_vars, deploy_vars, bypass_vars,
    expr_vars, shadow_vars, simp_vars, lock_vars, hash_vars, flow_vars>>
not_resume_vars == <<exec_vars, concolic_vars, taint_vars, deploy_vars, bypass_vars,
    expr_vars, shadow_vars, simp_vars, lock_vars, hash_vars, flow_vars>>
not_bypass_vars == <<exec_vars, concolic_vars, taint_vars, resume_vars, deploy_vars,
    expr_vars, shadow_vars, simp_vars, lock_vars, hash_vars, flow_vars>>
not_deploy_vars == <<pc, input, vm_state, data, cleanup, loop_i, cur_interp, r_ret,
                     exec_res, result, input_at_call, observed, run_writes, interp_ran,
                     run_count, last_run_ret, concolic_vars, taint_vars, resume_vars,
                     bypass_vars, expr_vars, shadow_vars, simp_vars, lock_vars, hash_vars, flow_vars>>
not_expr_vars == <<exec_vars, concolic_vars, taint_vars, resume_vars, deploy_vars,
                   bypass_vars, shadow_vars, simp_vars, lock_vars, hash_vars, flow_vars>>
not_shadow_vars == <<exec_vars, concolic_vars, taint_vars, resume_vars, deploy_vars,
                     bypass_vars, expr_vars, simp_vars, lock_vars, hash_vars, flow_vars>>
not_simp_vars == <<exec_vars, concolic_vars, taint_vars, resume_vars, deploy_vars,
                   bypass_vars, expr_vars, shadow_vars, lock_vars, hash_vars, flow_vars>>
not_lock_vars == <<exec_vars, concolic_vars, taint_vars, resume_vars, deploy_vars,
                   bypass_vars, expr_vars, shadow_vars, simp_vars, hash_vars, flow_vars>>
not_hash_vars == <<exec_vars, concolic_vars, taint_vars, resume_vars, deploy_vars,
                   bypass_vars, expr_vars, shadow_vars, simp_vars, lock_vars, flow_vars>>
not_flow_vars == <<exec_vars, concolic_vars, taint_vars, resume_vars, deploy_vars,
                   bypass_vars, expr_vars, shadow_vars, simp_vars, lock_vars, hash_vars>>

(***************************************************************************)
(* Bounds of the model.                                                    *)
(***************************************************************************)
\* Spec: inputs carry at most this many continuation groups
MaxInputDepth == 1
\* Spec: largest repeat count of an input
MaxRepeat == 2

(***************************************************************************)
(* Values.                                                                 *)
(***************************************************************************)
None == <<>>
Some(x) == <<x>>
IsSome(o) == Len(o) = 1
Unwrap(o) == o[1]

EmptyMap == [x \in {} |-> 0]

\* Addresses: the first has code registered in host.code, the second has none.
CodeAddr == "A1"
NoCodeAddr == "A2"
Addrs == {CodeAddr, NoCodeAddr}
HostCode == {CodeAddr}

MAX_POST_EXECUTION == 10

Statuses == {"Return", "Stop", "SelfDestruct", "ControlLeak",
             "ArbitraryExternalCallAddressBounded", "Revert", "OutOfGas"}

\* EVMState::new
EVMStateNew ==
    [state |-> EmptyMap,
     post_execution |-> <<>>,
     bug_hit |-> FALSE,
     self_destruct |-> {},
     typed_bug |-> {},
     arbitrary_calls |-> {}]

\* StagedVMState::new_uninitialized / new_with_state (stage and trace start empty in both)
StagedNewUninitialized == [state |-> EVMStateNew, initialized |-> FALSE]
StagedNewWithState(s) == [state |-> s, initialized |-> TRUE]

\* the caller of the transaction
Sender == "S0"

\* SinglePostExecution values the host may have captured: the frame of the
\* contract that made the call, and who called that contract
SinglePostExecution(pcv, off, len) ==
    [program_counter |-> pcv, output_offset |-> off, output_len |-> len,
     caller |-> Sender, address |-> CodeAddr]
LeakCtxs == { << SinglePostExecution(51, 0, 32) >>,
              << SinglePostExecution(77, 32, 0), SinglePostExecution(51, 0, 32) >> }

TypedBugs == { <<"bug", <<CodeAddr, 9>> >> }
SelfDestructs == { <<CodeAddr, 7>> }
ArbitraryCalls == { <<CodeAddr, NoCodeAddr, 5>> }
Outputs == { <<>>, <<7>> }
\* one SSTORE the contract may perform: <<address, key, value>>
StorageWrites == { <<CodeAddr, 0, 1>> }


\* an accessor that reads the oldest group
get_post_execution_pc_oldest(st) ==
    IF st.post_execution = <<>> THEN 0
    ELSE Head(Head(st.post_execution).pes).program_counter

\* EVMState::get_post_execution_pc: the first frame of the last group, 0 without
\* groups
get_post_execution_pc(st) ==
    IF st.post_execution = <<>> THEN 0
    ELSE Head(st.post_execution[Len(st.post_execution)].pes).program_counter

\* EVMState::get_post_execution_needed_len: the first frame of the last group;
\* without groups the unwrap panics (None)
get_post_execution_needed_len(st) ==
    IF st.post_execution = <<>> THEN None
    ELSE Some(Head(st.post_execution[Len(st.post_execution)].pes).output_len)

\* EVMState::get_post_execution_len
get_post_execution_len(st) == Len(st.post_execution)

(***************************************************************************)
(* One interpreter run (FuzzHost::run_inspect) as seen by the executor:    *)
(* its final status, the SSTOREs it performed, the events the host         *)
(* recorded, the frames captured on a control leak, its return value and   *)
(* the number of nested calls.                                             *)
(***************************************************************************)
IsLeak(ret) == ret \in {"ControlLeak", "ArbitraryExternalCallAddressBounded"}

WriteSeqs == { <<>> } \cup { <<w>> : w \in StorageWrites }

\* the events one run raises: none, a typed bug, or a self-destruct and an
\* arbitrary call
EventSets ==
    { [typed_bug |-> {}, self_destruct |-> {}, arbitrary_calls |-> {}],
      [typed_bug |-> TypedBugs, self_destruct |-> {}, arbitrary_calls |-> {}],
      [typed_bug |-> {}, self_destruct |-> SelfDestructs,
       arbitrary_calls |-> ArbitraryCalls] }

\* only Return carries data; only a control leak may come from a nested call, and
\* then it has captured a second frame
RunOutcomes ==
    { o \in [ret : Statuses, writes : WriteSeqs, events : EventSets,
             leak : LeakCtxs, output : Outputs, calls : 0..1] :
        /\ o.ret # "ControlLeak" => o.leak = << SinglePostExecution(51, 0, 32) >>
        /\ o.ret # "Return" => o.output = <<>>
        /\ o.calls = Len(o.leak) - 1 }

\* runs that raise no event, write nothing and return nothing
QuietOutcomes ==
    { o \in RunOutcomes :
        /\ o.writes = <<>> /\ o.events.typed_bug = {} /\ o.events.self_destruct = {}
        /\ o.events.arbitrary_calls = {} /\ o.output = <<>> /\ o.calls = 0
        /\ Len(o.leak) = 1 }

\* host.sstore: the slot is written into host.evmstate in place
SStore(st, w) ==
    LET a == w[1]
        inner == IF a \in DOMAIN st THEN st[a] ELSE EmptyMap
    IN  (a :> ((w[2] :> w[3]) @@ inner)) @@ st

RECURSIVE ApplyWrites(_, _)
ApplyWrites(st, ws) ==
    IF ws = <<>> THEN st ELSE ApplyWrites(SStore(st, Head(ws)), Tail(ws))

\* the effect of one run on the host: storage written in place, events appended,
\* the captured frames replaced when control leaks, nested calls counted
HostRun(h, o) ==
    [h EXCEPT
        !.evmstate.state = ApplyWrites(h.evmstate.state, o.writes),
        !.current_typed_bug = @ \cup o.events.typed_bug,
        !.current_self_destructs = @ \cup o.events.self_destruct,
        !.current_arbitrary_calls = @ \cup o.events.arbitrary_calls,
        !.leak_ctx = IF IsLeak(o.ret) THEN o.leak ELSE @,
        !.call_count = o.calls]

(***************************************************************************)
(* EVMExecutor::execute_from_pc and execute_abi (vm.rs).                   *)
(***************************************************************************)
\* Interpreter::new_with_memory_limit on the contract of a call
NewInterpreter(static) ==
    [program_counter |-> 0, memory |-> <<>>, stack |-> <<>>, is_static |-> static,
     input |-> <<1, 1, 1, 1>>, code_address |-> CodeAddr, address |-> CodeAddr,
     caller |-> Sender, value |-> 0, return_data_buffer |-> <<>>]

\* what a run leaves in the interpreter: words on the stack, bytes in the
\* memory, the instruction pointer at the instruction that halted
RunInterp(interp) ==
    [interp EXCEPT !.stack = <<1>>, !.memory = <<7>>, !.program_counter = 2]

\* the repeat loop clears stack and memory and resets the instruction pointer
ClearInterp(interp) ==
    [interp EXCEPT !.stack = <<>>, !.memory = <<>>, !.program_counter = 0]

\* a loop test that takes every status for a success
CallNeverFails(ret) == TRUE

\* is_call_success!
IsCallSuccess(ret) == ret \in {"Return", "Stop", "ControlLeak", "SelfDestruct"}

\* the "Initial setups" of execute_from_pc, up to the bytecode lookup
HostSetup(h, vs, cl) ==
    [h EXCEPT
        !.current_typed_bug = IF cl THEN {} ELSE @,
        !.current_self_destructs = IF cl THEN {} ELSE @,
        !.current_arbitrary_calls = IF cl THEN {} ELSE @,
        !.evmstate = vs,
        !.call_count = 0]

\* a bytecode lookup that fails with a successful status
NoCodeResultStop ==
    [output |-> <<>>, new_state |-> EVMStateNew, ret |-> "Stop"]

\* the result execute_from_pc returns when no code is registered at the target
NoCodeResult ==
    [output |-> <<>>, new_state |-> EVMStateNew, ret |-> "Revert"]

\* the result execute_from_pc builds after the runs
BuildResult(h, ret, out) ==
    [output |-> out, new_state |-> h.evmstate, ret |-> ret]

NeedStep(er) ==
    /\ Len(er.new_state.post_execution) > 0
    /\ er.new_state.post_execution[Len(er.new_state.post_execution)].must_step

\* a loop that goes round again on any pending group
LoopAgainAnyGroup(er) ==
    er.ret \in {"Return", "Stop"} /\ Len(er.new_state.post_execution) > 0

\* the loop of execute_abi goes round again
LoopAgain(er) == er.ret \in {"Return", "Stop"} /\ NeedStep(er)

\* the bound test without the group about to be pushed
OverflowOffByOne(er) ==
    IsLeak(er.ret) /\ Len(er.new_state.post_execution) > MAX_POST_EXECUTION

\* one more continuation group does not fit
Overflow(er) ==
    IsLeak(er.ret) /\ Len(er.new_state.post_execution) + 1 > MAX_POST_EXECUTION

\* is_reverted_or_control_leak in the place of the match of execute_abi
RevertedOrControlLeak(ret) == ret \notin {"Return", "Stop", "SelfDestruct"}

\* the reverted flag of the ExecutionResult
Reverted(ret) ==
    ret \notin {"Return", "Stop", "ControlLeak", "SelfDestruct",
                "ArbitraryExternalCallAddressBounded"}

\* a group that never forces the next transaction to step
LeakGroupNeverMustStep(er, h) == [pes |-> h.leak_ctx, must_step |-> FALSE]

\* the group pushed on a leak
LeakGroup(er, h) == [pes |-> h.leak_ctx, must_step |-> er.ret # "ControlLeak"]

\* the current events in the place of the union
MergeEventsReplace(carried, current) == current

\* the union of the carried and the current event sets
MergeEvents(carried, current) == carried \cup current

\* an early return that hands the state of the run on
OverflowResultKeepsState(er) ==
    [output |-> er.output, reverted |-> TRUE,
     new_state |-> StagedNewWithState(er.new_state), additional_info |-> None]

\* the early return of execute_abi when the bound is exceeded
OverflowResult(er) ==
    [output |-> er.output, reverted |-> TRUE,
     new_state |-> StagedNewUninitialized, additional_info |-> None]

\* execute_abi after its loop: from r, vm_state and the host to the ExecutionResult
ExecuteAbiResult(er, vs, h) ==
    IF Overflow(er)
    THEN OverflowResult(er)
    ELSE LET pe == IF IsLeak(er.ret)
                   THEN Append(er.new_state.post_execution, LeakGroup(er, h))
                   ELSE er.new_state.post_execution
             ns == [er.new_state EXCEPT
                       !.post_execution = pe,
                       !.typed_bug = MergeEvents(vs.typed_bug, h.current_typed_bug),
                       !.self_destruct =
                           MergeEvents(vs.self_destruct, h.current_self_destructs),
                       !.arbitrary_calls =
                           MergeEvents(vs.arbitrary_calls, h.current_arbitrary_calls)]
         IN  [output |-> er.output, reverted |-> Reverted(er.ret),
              new_state |-> StagedNewWithState(ns),
              additional_info |-> IF er.ret = "ControlLeak"
                                  THEN Some(<<h.call_count % 256>>) ELSE None]

\* the call data of the next round of the loop
StepData(er) == <<0, 0, 0, 0>> \o er.output

\* the world states an input may carry: the default one, the one of the current
\* input, the one of the last result (replay chains on it)
InputStates ==
    {EVMStateNew, input.state}
        \cup (IF IsSome(result) THEN {Unwrap(result).new_state.state} ELSE {})

NoEvents == [typed_bug |-> {}, self_destruct |-> {}, arbitrary_calls |-> {}]

\* the locals of execute_abi and execute_from_pc once execute has returned
LocalsDropped ==
    /\ vm_state' = EVMStateNew
    /\ cur_interp' = NewInterpreter(FALSE)
    /\ data' = <<>>
    /\ cleanup' = TRUE
    /\ loop_i' = 0
    /\ r_ret' = "Stop"

\* execute on a target without code: execute_abi clones the state of the input,
\* execute_from_pc returns at the bytecode lookup, the loop ends at once
ExecuteNoCode(st, target, rep) ==
    /\ pc = "idle"
    /\ target \notin HostCode
    /\ input' = [state |-> st, contract |-> target, repeat |-> rep]
    /\ input_at_call' = input'
    /\ host' = HostSetup(host, st, TRUE)
    /\ observed' = NoEvents
    /\ run_writes' = {}
    /\ interp_ran' = FALSE
    /\ run_count' = 0
    /\ last_run_ret' = "Stop"
    /\ ~LoopAgain(NoCodeResult)
    /\ LocalsDropped
    /\ exec_res' = Some(NoCodeResult)
    /\ result' = Some(ExecuteAbiResult(NoCodeResult, st, host'))
    /\ pc' = "idle"

\* execute on a target with code, up to the first run_inspect: execute_abi clones
\* the state of the input and takes its call data, execute_from_pc sets up the host
ExecuteStart(st, target, rep) ==
    /\ pc = "idle"
    /\ target \in HostCode
    /\ input' = [state |-> st, contract |-> target, repeat |-> rep]
    /\ input_at_call' = input'
    /\ vm_state' = st
    /\ data' = <<1, 1, 1, 1>>
    /\ cleanup' = TRUE
    /\ host' = HostSetup(host, st, TRUE)
    /\ r_ret' = "Stop"
    /\ loop_i' = 0
    /\ cur_interp' = NewInterpreter(FALSE)
    /\ exec_res' = None
    /\ result' = None
    /\ observed' = NoEvents
    /\ run_writes' = {}
    /\ interp_ran' = FALSE
    /\ run_count' = 0
    /\ last_run_ret' = "Stop"
    /\ pc' = "run"

\* what execute_abi does with the result of one execute_from_pc on a target with
\* code: go round its loop again, up to the next run_inspect, or return
AfterCall(er, h) ==
    IF LoopAgain(er)
    THEN /\ exec_res' = Some(er)
         /\ data' = StepData(er)
         /\ cleanup' = FALSE
         /\ host' = HostSetup(h, vm_state, FALSE)
         /\ r_ret' = "Stop"
         /\ loop_i' = 0
         /\ cur_interp' = NewInterpreter(FALSE)
         /\ run_count' = 0
         /\ pc' = "run"
         /\ UNCHANGED <<result, vm_state>>
    ELSE /\ host' = h
         /\ run_count' = run_count + 1
         /\ LocalsDropped
         /\ exec_res' = Some(er)
         /\ result' = Some(ExecuteAbiResult(er, vm_state, h))
         /\ pc' = "idle"

\* an input whose state is the working state itself, not a clone of it
AliasedInputState(input_state, working) == working

\* execute_abi works on a clone of the state of its input (input: &I), and the
\* host on a clone of that clone: what the run writes never reaches the input
BorrowedInputState(input_state, working) == input_state

\* one run_inspect of execute_from_pc, and all that follows it until the next one
RunInspect(o) ==
    /\ pc = "run"
    /\ observed' = [typed_bug |-> observed.typed_bug \cup o.events.typed_bug,
                    self_destruct |-> observed.self_destruct \cup o.events.self_destruct,
                    arbitrary_calls |->
                        observed.arbitrary_calls \cup o.events.arbitrary_calls]
    /\ run_writes' = run_writes \cup { o.writes[i] : i \in 1..Len(o.writes) }
    /\ interp_ran' = TRUE
    /\ last_run_ret' = o.ret
    /\ IF loop_i < input.repeat - 1
       THEN \* inside `for _v in 0..repeats - 1`
            IF IsCallSuccess(o.ret)
            THEN /\ loop_i' = loop_i + 1
                 /\ r_ret' = o.ret
                 /\ host' = HostRun(host, o)
                 /\ cur_interp' = ClearInterp(RunInterp(cur_interp))
                 /\ run_count' = run_count + 1
                 /\ UNCHANGED <<pc, data, cleanup, exec_res, result, vm_state>>
            ELSE \* break; the final run is skipped; return_range = 0..0
                 AfterCall(BuildResult(HostRun(host, o), o.ret, <<>>), HostRun(host, o))
       ELSE \* the final run
            AfterCall(BuildResult(HostRun(host, o), o.ret, o.output), HostRun(host, o))
    /\ input' = [input EXCEPT
                    !.state = BorrowedInputState(@, HostRun(host, o).evmstate)]
    /\ UNCHANGED input_at_call

ExecInit ==
    /\ pc = "idle"
    /\ input = [state |-> EVMStateNew, contract |-> CodeAddr, repeat |-> 1]
    /\ input_at_call = input
    /\ vm_state = EVMStateNew
    /\ data = <<>>
    /\ cleanup = TRUE
    /\ host = [evmstate |-> EVMStateNew, current_typed_bug |-> {},
               current_self_destructs |-> {}, current_arbitrary_calls |-> {},
               leak_ctx |-> <<>>, call_count |-> 0]
    /\ loop_i = 0
    /\ cur_interp = NewInterpreter(FALSE)
    /\ r_ret = "Stop"
    /\ run_count = 0
    /\ last_run_ret = "Stop"
    /\ exec_res = None
    /\ result = None
    /\ observed = [typed_bug |-> {}, self_destruct |-> {}, arbitrary_calls |-> {}]
    /\ run_writes = {}
    /\ interp_ran = FALSE

ConcolicInit ==
    /\ c_stack_len = 0
    /\ c_frames = <<>>
    /\ c_halt_op = -1
    /\ symbolic_stack = <<>>
    /\ concolic_ctxs = <<>>
    /\ constraints = <<>>
    /\ concolic_fatal = FALSE

TaintInit ==
    /\ t_stack_len = 0
    /\ t_frames = <<>>
    /\ t_halt_op = -1
    /\ dirty_stack = <<>>
    /\ taint_ctxs = <<>>
    /\ tainted_jumpi = {}
    /\ taint_fatal = FALSE
    /\ t_last = [arm |-> "new", ops |-> <<>>, pc |-> 0]

ResumeInit ==
    /\ r_phase = "running"
    /\ r_interp = NewInterpreter(FALSE)
    /\ r_leak = None
    /\ r_call = None
    /\ r_data = None
    /\ r_fatal = FALSE

\* the contract under test is registered at the address with code
DeployInit ==
    /\ code = [a \in HostCode |-> <<7>>]
    /\ deploy_res = None

NoStep == [op |-> -1, pc |-> 0, before |-> <<>>, after |-> <<>>]

BypassInit ==
    /\ b_stack = <<>>
    /\ b_seed = 0
    /\ b_last = NoStep
    /\ b_fatal = FALSE

ExprInit ==
    /\ ex_tree = None
    /\ ex_concrete = None

\* ConcolicHost::new
ConcolicHostNew ==
    [symbolic_stack |-> <<>>, symbolic_memory |-> <<>>, symbolic_state |-> EmptyMap,
     constraints |-> <<>>, ctxs |-> <<>>, fatal |-> FALSE]
\* Sha3TaintAnalysis::new
Sha3TaintAnalysisNew ==
    [dirty_memory |-> <<>>, dirty_storage |-> EmptyMap, dirty_stack |-> <<>>,
     tainted_jumpi |-> {}, ctxs |-> <<>>, fatal |-> FALSE]

NoShadowStep == [op |-> -1, w |-> 0, pc |-> 0]

ShadowInit ==
    /\ sh_stack = <<>>
    /\ sh_callers = <<>>
    /\ sh_halted = FALSE
    /\ sh_copied = {}
    /\ ch = ConcolicHostNew
    /\ ta = Sha3TaintAnalysisNew
    /\ sh_todo = <<>>
    /\ sh_blocks = 0
    /\ sh_last = NoShadowStep

SimplifyInit ==
    /\ sx_tree = None
    /\ sx_once = None
    /\ sx_twice = None

LockstepInit ==
    /\ lk_op = -1
    /\ lk_depth = 0
    /\ lk_concolic = FALSE
    /\ lk_taint = FALSE

HashInit ==
    /\ hs_a = None
    /\ hs_b = None
    /\ hs_hash_a = 0
    /\ hs_hash_b = 0


FlowInit ==
    /\ fl_stack = <<>>
    /\ fl_ta = Sha3TaintAnalysisNew
    /\ fl_from = [stack |-> <<>>, memory |-> {}, storage |-> {}, branches |-> {}]
    /\ fl_via = {}
Init ==
    /\ ExecInit /\ ConcolicInit /\ TaintInit /\ ResumeInit /\ DeployInit /\ BypassInit
    /\ ExprInit /\ ShadowInit /\ SimplifyInit /\ LockstepInit
    /\ HashInit /\ FlowInit

(***************************************************************************)
(* Spec: transactions with every run outcome, on inputs that carry few     *)
(* continuation groups.                                                    *)
(***************************************************************************)
NoCode ==
    /\ \E st \in InputStates, rep \in 1..MaxRepeat :
        /\ Len(st.post_execution) <= MaxInputDepth
        /\ ExecuteNoCode(st, NoCodeAddr, rep)
    /\ UNCHANGED not_exec_vars

Start ==
    /\ \E st \in InputStates, rep \in 1..MaxRepeat :
        /\ Len(st.post_execution) <= MaxInputDepth
        /\ ExecuteStart(st, CodeAddr, rep)
    /\ UNCHANGED not_exec_vars

Run ==
    /\ \E o \in RunOutcomes : RunInspect(o)
    /\ UNCHANGED not_exec_vars

Next == NoCode \/ Start \/ Run

Spec == Init /\ [][Next]_vars

(***************************************************************************)
(* SpecChain: transactions chained on the result state, to any depth, with *)
(* quiet runs.                                                             *)
(***************************************************************************)
NoCodeChain ==
    /\ \E st \in InputStates : ExecuteNoCode(st, NoCodeAddr, 1)
    /\ UNCHANGED not_exec_vars

StartChain ==
    /\ \E st \in InputStates : ExecuteStart(st, CodeAddr, 1)
    /\ UNCHANGED not_exec_vars

RunQuiet ==
    /\ \E o \in QuietOutcomes : RunInspect(o)
    /\ UNCHANGED not_exec_vars

NextChain == NoCodeChain \/ StartChain \/ RunQuiet

SpecChain == Init /\ [][NextChain]_vars


(***************************************************************************)
(* Claims about the executor.                                              *)
(***************************************************************************)
Returned == pc = "idle" /\ IsSome(result) /\ IsSome(exec_res)
FinalRet == Unwrap(exec_res).ret
ResultState == Unwrap(result).new_state.state
InputGroups == input_at_call.state.post_execution
\* the run ended in a leak and one more group does not fit
BoundExceeded == IsLeak(FinalRet) /\ Len(InputGroups) + 1 > 10

\* C3: starting from a world state without continuation groups, every world state
\* of a chain of transactions (of the input, of the host, of the result) has at
\* most 10 continuation groups.
C3_ContinuationBound ==
    /\ Len(input.state.post_execution) <= 10
    /\ Len(host.evmstate.post_execution) <= 10
    /\ IsSome(result) => Len(ResultState.post_execution) <= 10

\* a result state that carries exactly 10 groups
C3_Witness == Returned /\ Len(ResultState.post_execution) = 10

\* C4: a leak on a state that already holds 10 groups returns reverted = true, a
\* state without continuation groups and no additional info.
C4_OverflowReverts ==
    (Returned /\ BoundExceeded) =>
        /\ Unwrap(result).reverted = TRUE
        /\ ResultState.post_execution = <<>>
        /\ Unwrap(result).additional_info = None

C4_Witness ==
    /\ Returned /\ BoundExceeded
    /\ FinalRet = "ArbitraryExternalCallAddressBounded"
    /\ Unwrap(result).reverted

\* C5: a leak within the bound appends exactly one group, holding the frames the
\* host captured, must_step false for a control leak and true for a bounded
\* arbitrary call; the groups of the input stay in front of it, unchanged.
C5_GroupAppended ==
    (Returned /\ IsLeak(FinalRet) /\ ~BoundExceeded) =>
        ResultState.post_execution =
            Append(InputGroups,
                   [pes |-> host.leak_ctx,
                    must_step |-> (FinalRet = "ArbitraryExternalCallAddressBounded")])

C5_Witness ==
    /\ Returned /\ FinalRet = "ArbitraryExternalCallAddressBounded"
    /\ Len(ResultState.post_execution) = 2
    /\ ~ResultState.post_execution[1].must_step
    /\ Len(ResultState.post_execution[1].pes) = 2
    /\ ResultState.post_execution[2].must_step

\* C6: within the bound, reverted is false exactly for Return, Stop, SelfDestruct,
\* ControlLeak and ArbitraryExternalCallAddressBounded.
C6_RevertedFlag ==
    (Returned /\ ~BoundExceeded) =>
        (Unwrap(result).reverted = FALSE) <=>
            FinalRet \in {"Return", "Stop", "SelfDestruct", "ControlLeak",
                          "ArbitraryExternalCallAddressBounded"}

C6_Witness ==
    /\ Returned /\ FinalRet = "ArbitraryExternalCallAddressBounded"
    /\ ~Unwrap(result).reverted
    /\ input_at_call.contract \in HostCode

\* C7: on a target without code the interpreter never runs; execute_from_pc
\* returns Revert with empty output and the result has reverted = true.
C7_NoCodeReverts ==
    (Returned /\ input_at_call.contract \notin HostCode) =>
        /\ ~interp_ran
        /\ FinalRet = "Revert"
        /\ Unwrap(exec_res).output = <<>>
        /\ Unwrap(result).output = <<>>
        /\ Unwrap(result).reverted = TRUE

\* a target without code, called on a state whose last group is must-step
C7_Witness ==
    /\ Returned /\ input_at_call.contract \notin HostCode
    /\ Len(InputGroups) = 1 /\ InputGroups[1].must_step
    /\ Unwrap(result).reverted

\* C8: within the bound, each event set of the result state is the union of the
\* set of the input state and the events observed during the transaction (so it
\* contains the set of the input state).
C8_EventsUnion ==
    (Returned /\ ~BoundExceeded) =>
        /\ ResultState.typed_bug = input_at_call.state.typed_bug \cup observed.typed_bug
        /\ ResultState.self_destruct =
               input_at_call.state.self_destruct \cup observed.self_destruct
        /\ ResultState.arbitrary_calls =
               input_at_call.state.arbitrary_calls \cup observed.arbitrary_calls

\* a carried typed bug and a new self-destruct, both in the result
C8_Witness ==
    /\ Returned
    /\ input_at_call.state.typed_bug = TypedBugs
    /\ observed.typed_bug = {} /\ observed.self_destruct = SelfDestructs
    /\ ResultState.typed_bug = TypedBugs /\ ResultState.self_destruct = SelfDestructs

\* C9: the state carried by the input is the same after execute as before it,
\* whatever the runs wrote.
C9_InputUnchanged == input = input_at_call

\* the run wrote a slot: the result has it, the input has not
C9_Witness ==
    /\ Returned /\ run_writes # {}
    /\ ResultState.state # input.state.state
    /\ input.state.state = EmptyMap

\* the slots written by the runs of this call that the state st shows
VisibleWrites(st) ==
    { w \in run_writes :
        /\ w[1] \in DOMAIN st.state
        /\ w[2] \in DOMAIN st.state[w[1]]
        /\ st.state[w[1]][w[2]] = w[3]
        /\ ~(/\ w[1] \in DOMAIN input_at_call.state.state
             /\ w[2] \in DOMAIN input_at_call.state.state[w[1]]
             /\ input_at_call.state.state[w[1]][w[2]] = w[3]) }

\* C10: when the bound is exceeded or the final status is a reverting one, the
\* result state shows no storage write of the run and no group added by it.
C10_RevertedRunDiscarded ==
    (Returned /\ (BoundExceeded \/ Unwrap(result).reverted)) =>
        /\ VisibleWrites(ResultState) = {}
        /\ Len(ResultState.post_execution) <= Len(InputGroups)

Cleared(interp) == interp.stack = <<>> /\ interp.memory = <<>> /\ interp.program_counter = 0

\* the statuses the claim counts as a success
SuccessStatus(ret) == ret \in {"Return", "Stop", "ControlLeak", "SelfDestruct"}

\* C15: with repeat count n, one execute_from_pc runs the opcode stream at most n
\* times; a further run starts only after a run with a success status, on a
\* cleared stack and memory and with the instruction pointer at 0; a call that
\* returns after fewer than n runs stopped on a non-success status; the status
\* returned is that of the last run.
C15_RepeatLoop ==
    /\ run_count <= input.repeat
    /\ (pc = "run" /\ run_count > 0) =>
          /\ run_count < input.repeat
          /\ r_ret = last_run_ret
          /\ SuccessStatus(last_run_ret)
          /\ Cleared(cur_interp)
    /\ (Returned /\ interp_ran) =>
          /\ run_count >= 1
          /\ FinalRet = last_run_ret
          /\ run_count < input.repeat => ~SuccessStatus(FinalRet)

\* a second run is about to start after a run that leaked control
C15_Witness ==
    /\ pc = "run" /\ input.repeat = 2 /\ run_count = 1
    /\ last_run_ret = "ControlLeak"
    /\ Cleared(cur_interp)

\* execute_abi is in a later round of its loop
LaterRound == pc = "run" /\ IsSome(exec_res)
\* the last group of the state a result carries is must-step
LastGroupMustStep(er) ==
    /\ er.new_state.post_execution # <<>>
    /\ er.new_state.post_execution[Len(er.new_state.post_execution)].must_step

\* C16: execute_abi starts another round exactly when the result of the round
\* has status Return or Stop and the last group of its state is must-step; the
\* call data of the new round is four zero bytes followed by the output of the
\* round, and the events recorded by the host in earlier rounds are still there;
\* otherwise execute_abi returns the result of that round.
C16_MustStepLoop ==
    /\ LaterRound =>
          /\ Unwrap(exec_res).ret \in {"Return", "Stop"}
          /\ LastGroupMustStep(Unwrap(exec_res))
          /\ Len(data) = 4 + Len(Unwrap(exec_res).output)
          /\ SubSeq(data, 1, 4) = <<0, 0, 0, 0>>
          /\ SubSeq(data, 5, Len(data)) = Unwrap(exec_res).output
          /\ host.current_typed_bug = observed.typed_bug
          /\ host.current_self_destructs = observed.self_destruct
          /\ host.current_arbitrary_calls = observed.arbitrary_calls
    /\ (Returned /\ interp_ran) =>
          /\ ~(/\ Unwrap(exec_res).ret \in {"Return", "Stop"}
               /\ LastGroupMustStep(Unwrap(exec_res)))
          /\ Unwrap(result).output = Unwrap(exec_res).output

\* a second round on the output of the first, with the typed bug of the first
\* round still recorded
C16_Witness ==
    /\ LaterRound
    /\ Unwrap(exec_res).ret = "Return"
    /\ data = <<0, 0, 0, 0, 7>>
    /\ host.current_typed_bug = TypedBugs

(***************************************************************************)
(* The opcode stream the two shadows observe.  on_step runs before the     *)
(* interpreter executes the opcode; of the interpreter the model keeps the *)
(* stack length of each frame.  Words the shadows peek on the concrete     *)
(* stack, and what their memory and storage hold, are inputs of a step.    *)
(***************************************************************************)
\* SpecConcolic, SpecTaint: stack entries of all the frames of one execution
MaxStack == 6
\* SpecConcolic: path constraints recorded in one execution
MaxConstraints == 1

\* the bytes a step may find at the instruction pointer
Opcodes == 0..255
CallOps == {\hf1, \hf2, \hf4, \hfa}
HaltOps == {\h00, \hf3, \hfd, \hfe, \hff}

RECURSIVE SumSeq(_)
SumSeq(q) == IF q = <<>> THEN 0 ELSE Head(q) + SumSeq(Tail(q))

\* the stack effect of an opcode in the EVM: operands required, popped, pushed
Effect(n, p, q) == [need |-> n, pop |-> p, push |-> q]
EvmEffect(op) ==
    CASE op \in {\h00, \h5b, \hfe} -> Effect(0, 0, 0)
      [] op \in (\h01..\h07) \cup {\h0a, \h0b} \cup (\h10..\h14) \cup (\h16..\h18)
                 \cup (\h1a..\h1d) \cup {\h20} -> Effect(2, 2, 1)
      [] op \in {\h08, \h09} -> Effect(3, 3, 1)
      [] op \in {\h15, \h19, \h31, \h35, \h3b, \h3f, \h40, \h51, \h54} -> Effect(1, 1, 1)
      [] op \in {\h30, \h32, \h33, \h34, \h36, \h38, \h3a, \h3d} \cup (\h41..\h48)
                 \cup (\h58..\h5a) \cup (\h5f..\h7f) -> Effect(0, 0, 1)
      [] op \in {\h37, \h39, \h3e} -> Effect(3, 3, 0)
      [] op = \h3c -> Effect(4, 4, 0)
      [] op \in {\h50, \h56, \hff} -> Effect(1, 1, 0)
      [] op \in {\h52, \h53, \h55, \h57, \hf3, \hfd} -> Effect(2, 2, 0)
      [] op \in \h80..\h8f -> Effect(op - \h7f, 0, 1)
      [] op \in \h90..\h9f -> Effect(op - \h8e, 0, 0)
      [] op \in \ha0..\ha4 -> Effect(op - \h9e, op - \h9e, 0)
      [] op = \hf0 -> Effect(3, 3, 1)
      [] op \in {\hf1, \hf2} -> Effect(7, 7, 1)
      [] op \in {\hf4, \hfa} -> Effect(6, 6, 1)
      [] op = \hf5 -> Effect(4, 4, 1)
      [] OTHER -> Effect(0, 0, 0)

\* the halting opcode a frame ends with (-1: the frame goes on)
HaltOf(op) == IF op \in HaltOps THEN op ELSE -1

\* Vec::pop, n times: popping an empty vector does nothing
PopN(q, n) == SubSeq(q, 1, IF Len(q) > n THEN Len(q) - n ELSE 0)

(***************************************************************************)
(* Concolic shadow: ConcolicHost (concolic_host.rs).  An Expr is kept as   *)
(* what is_concrete tells of it.                                           *)
(***************************************************************************)
Exprs == {"concrete", "symbolic"}
is_concrete(e) == e = "concrete"
\* a node with two children, a node with one child
Node2(l, r) == IF is_concrete(l) /\ is_concrete(r) THEN "concrete" ELSE "symbolic"
Node1(l) == l

\* stack_bv!: an absent slot reads as a leaf of the concrete word
stack_bv(q, idx) ==
    LET e == q[Len(q) - idx] IN IF e = None THEN "concrete" ELSE Unwrap(e)

\* what one arm of the match of on_step yields
COk(q, bv) ==
    [fatal |-> FALSE, stack |-> q, bv |-> bv, call |-> FALSE, constraint |-> <<>>]
CPanic ==
    [fatal |-> TRUE, stack |-> <<>>, bv |-> <<>>, call |-> FALSE, constraint |-> <<>>]

\* concrete_eval!
concrete_eval(q, in_cnt, out_cnt) == COk(PopN(q, in_cnt), [i \in 1..out_cnt |-> None])
\* concrete_eval_with_action!(.., push_ctx)
concrete_eval_with_action(q, in_cnt, out_cnt) ==
    [COk(PopN(q, in_cnt) \o [i \in 1..out_cnt |-> None], <<>>) EXCEPT !.call = TRUE]

\* the arithmetic, comparison and bitwise arms
Unary(q) ==
    IF Len(q) < 1 THEN CPanic
    ELSE COk(PopN(q, 1), << Some(Node2(stack_bv(q, 0), "concrete")) >>)
Binary(q) ==
    IF Len(q) < 2 THEN CPanic
    ELSE COk(PopN(q, 2), << Some(Node2(stack_bv(q, 0), stack_bv(q, 1))) >>)
Ternary(q) ==
    IF Len(q) < 3 THEN CPanic
    ELSE COk(PopN(q, 3),
             << Some(Node2(Node2(stack_bv(q, 0), stack_bv(q, 1)), stack_bv(q, 2))) >>)

\* what symbolic memory, symbolic storage and the input of a call context may
\* hold at the place read
ShadowReads == {None} \cup { Some(e) : e \in Exprs }
\* the inputs of one step: the condition word of a JUMPI is zero; the value read;
\* the read runs past the end of the memory vector
DefaultIn == [br |-> FALSE, read |-> None, oob |-> FALSE]
ConcolicInputs(m, depth) ==
    CASE m.arm = "jumpi" -> { [DefaultIn EXCEPT !.br = b] : b \in BOOLEAN }
      [] m.arm = "mload" -> { [DefaultIn EXCEPT !.read = r] : r \in ShadowReads }
                                \cup { [DefaultIn EXCEPT !.oob = TRUE] }
      [] m.arm = "sload" -> { [DefaultIn EXCEPT !.read = r] : r \in ShadowReads }
      [] m.arm = "calldataload" /\ depth > 0 ->
            { [DefaultIn EXCEPT !.read = Some(e)] : e \in Exprs }
      [] OTHER -> { DefaultIn }

\* the arm of the match of on_step an opcode selects, with its operand counts
Arm(name, n, m) == [arm |-> name, n |-> n, m |-> m]
ConcolicMatch(op) ==
    CASE op \in (\h01..\h07) \cup (\h10..\h14) \cup (\h16..\h18) \cup (\h1b..\h1d) ->
            Arm("binary", 2, 1)
      [] op \in {\h08, \h09} -> Arm("ternary", 3, 1)
      [] op \in {\h0a, \h0b, \h1a, \h20} -> Arm("concrete_eval", 2, 1)
      [] op \in {\h15, \h19} -> Arm("unary", 1, 1)
      [] op \in {\h30, \h32, \h36, \h38, \h3a, \h3d} \cup (\h41..\h48) \cup (\h58..\h5a)
                 \cup (\h60..\h7f) -> Arm("concrete_eval", 0, 1)
      [] op \in {\h31, \h3b, \h3f, \h40} -> Arm("concrete_eval", 1, 1)
      [] op \in {\h33, \h34} -> Arm("caller", 0, 1)
      [] op = \h35 -> Arm("calldataload", 1, 1)
      [] op \in {\h37, \h39, \h3e} -> Arm("concrete_eval", 3, 0)
      [] op = \h3c -> Arm("concrete_eval", 4, 0)
      [] op = \h50 -> Arm("concrete_eval", 1, 0)
      [] op = \h51 -> Arm("mload", 1, 1)
      [] op = \h52 -> Arm("mstore", 2, 0)
      [] op = \h53 -> Arm("mstore8", 2, 0)
      [] op = \h54 -> Arm("sload", 1, 1)
      [] op = \h55 -> Arm("sstore", 2, 0)
      [] op = \h56 -> Arm("concrete_eval", 1, 0)
      [] op = \h57 -> Arm("jumpi", 2, 0)
      [] op \in {\h5b, \hf3, \hfe, \h00} -> Arm("concrete_eval", 0, 0)
      [] op \in \h80..\h8f -> Arm("dup", op - \h80, 1)
      [] op \in \h90..\h9f -> Arm("swap", op - \h90 + 1, 0)
      [] op \in \ha0..\ha4 -> Arm("concrete_eval", op - \ha0 + 2, 0)
      [] op = \hf0 -> Arm("concrete_eval", 3, 1)
      [] op \in {\hf1, \hf2} -> Arm("call", 7, 1)
      [] op \in {\hf4, \hfa} -> Arm("call", 6, 1)
      [] op = \hf5 -> Arm("concrete_eval", 4, 1)
      [] op = \hfd -> Arm("concrete_eval", 2, 0)
      [] op = \hff -> Arm("concrete_eval", 1, 0)
      [] OTHER -> Arm("unsupported", 0, 0)

\* the steps of the opcode stream as the concolic shadow and the interpreter tell
\* them apart: opcodes of one arm, one stack effect and one way to halt are one step
ConcolicSteps ==
    { [m |-> ConcolicMatch(op), eff |-> EvmEffect(op), halt |-> HaltOf(op)] :
        op \in Opcodes }

\* the body of the arm m, on the symbolic stack q at call depth `depth`
ConcolicArm(m, q, depth, in) ==
    CASE m.arm = "concrete_eval" -> concrete_eval(q, m.n, m.m)
      [] m.arm = "binary" -> Binary(q)
      [] m.arm = "unary" -> Unary(q)
      [] m.arm = "ternary" -> Ternary(q)
      [] m.arm = "dup" ->
            IF Len(q) < m.n + 1 THEN CPanic ELSE COk(q, << Some(stack_bv(q, m.n)) >>)
      [] m.arm = "swap" ->
            IF Len(q) < m.n + 1 THEN CPanic
            ELSE COk([q EXCEPT ![Len(q)] = Some(stack_bv(q, m.n)),
                               ![Len(q) - m.n] = Some(stack_bv(q, 0))], <<>>)
      [] m.arm = "caller" ->
            \* CALLER, CALLVALUE: the concrete word inside a call
            IF depth > 0 THEN COk(q, << None >>) ELSE COk(q, << Some("symbolic") >>)
      [] m.arm = "calldataload" ->
            IF depth > 0 THEN COk(PopN(q, 1), << in.read >>)
            ELSE COk(PopN(q, 1), << Some("symbolic") >>)
      [] m.arm = "mload" -> IF in.oob THEN CPanic ELSE COk(PopN(q, 1), << in.read >>)
      [] m.arm = "mstore" -> IF Len(q) < 2 THEN CPanic ELSE COk(PopN(q, 2), <<>>)
      [] m.arm = "mstore8" -> CPanic   \* insert_8 is todo!()
      [] m.arm = "sload" -> COk(PopN(q, 1), << in.read >>)
      [] m.arm = "sstore" -> IF Len(q) < 1 THEN CPanic ELSE COk(PopN(q, 2), <<>>)
      [] m.arm = "jumpi" ->
            IF Len(q) < 2 THEN CPanic
            ELSE [COk(PopN(q, 2), <<>>) EXCEPT
                     !.constraint = IF is_concrete(Node1(stack_bv(q, 1))) THEN <<>>
                                    ELSE << IF in.br THEN "lnot" ELSE "cond" >>]
      [] m.arm = "call" -> concrete_eval_with_action(q, m.n, m.m)
      [] OTHER -> CPanic

\* the loop that ends on_step: a concrete result is pushed as an absent slot
PushAll(q, bv) ==
    q \o [i \in 1..Len(bv) |->
            IF IsSome(bv[i]) /\ is_concrete(Unwrap(bv[i])) THEN None ELSE bv[i]]

\* a panic of the shadow ends the process
ConcolicPanic ==
    /\ concolic_fatal' = TRUE
    /\ symbolic_stack' = <<>>
    /\ concolic_ctxs' = <<>>
    /\ c_stack_len' = 0
    /\ c_frames' = <<>>
    /\ c_halt_op' = -1
    /\ UNCHANGED constraints

\* on_step on one opcode, and the interpreter executing it
ConcolicOnStep(step, in) ==
    LET eff == step.eff
        a == ConcolicArm(step.m, symbolic_stack, Len(concolic_ctxs), in)
    IN  /\ ~concolic_fatal
        /\ c_halt_op = -1
        /\ c_stack_len >= eff.need
        /\ SumSeq(c_frames) + c_stack_len - eff.pop + eff.push <= MaxStack
        /\ a.constraint # <<>> => Len(constraints) < MaxConstraints
        /\ IF a.fatal
           THEN ConcolicPanic
           ELSE /\ constraints' = constraints \o a.constraint
                /\ IF a.call
                   THEN \* push_ctx; the interpreter enters the callee
                        /\ concolic_ctxs' =
                               Append(concolic_ctxs, [symbolic_stack |-> a.stack])
                        /\ symbolic_stack' = <<>>
                        /\ c_frames' = Append(c_frames, c_stack_len - eff.pop + eff.push)
                        /\ c_stack_len' = 0
                   ELSE /\ symbolic_stack' = PushAll(a.stack, a.bv)
                        /\ c_stack_len' = c_stack_len - eff.pop + eff.push
                        /\ UNCHANGED <<concolic_ctxs, c_frames>>
                /\ c_halt_op' = step.halt
                /\ concolic_fatal' = FALSE

\* on_return: the callee has halted, pop_ctx restores the shadow of the caller
ConcolicOnReturn ==
    /\ ~concolic_fatal
    /\ c_halt_op # -1
    /\ c_frames # <<>>
    /\ IF concolic_ctxs = <<>>
       THEN ConcolicPanic
       ELSE /\ symbolic_stack' = concolic_ctxs[Len(concolic_ctxs)].symbolic_stack
            /\ concolic_ctxs' = PopN(concolic_ctxs, 1)
            /\ c_stack_len' = c_frames[Len(c_frames)]
            /\ c_frames' = PopN(c_frames, 1)
            /\ c_halt_op' = -1
            /\ UNCHANGED <<constraints, concolic_fatal>>

\* ConcolicHost::new for the next execution, once the outermost frame has halted
ConcolicNew ==
    /\ ~concolic_fatal
    /\ c_halt_op # -1
    /\ c_frames = <<>>
    /\ symbolic_stack' = <<>>
    /\ concolic_ctxs' = <<>>
    /\ constraints' = <<>>
    /\ c_stack_len' = 0
    /\ c_halt_op' = -1
    /\ UNCHANGED <<c_frames, concolic_fatal>>

(***************************************************************************)
(* SpecConcolic: every opcode stream, within the bounds.                   *)
(***************************************************************************)
ConcolicStep ==
    /\ \E step \in ConcolicSteps :
         \E in \in ConcolicInputs(step.m, Len(concolic_ctxs)) : ConcolicOnStep(step, in)
    /\ UNCHANGED not_concolic_vars

ConcolicReturn == ConcolicOnReturn /\ UNCHANGED not_concolic_vars

ConcolicRestart == ConcolicNew /\ UNCHANGED not_concolic_vars

NextConcolic == ConcolicStep \/ ConcolicReturn \/ ConcolicRestart

SpecConcolic == Init /\ [][NextConcolic]_vars

\* C1: after every opcode the concolic shadow has processed, the symbolic stack is
\* as long as the concrete stack of the current call frame.
C1_SymbolicStackLength == ~concolic_fatal => Len(symbolic_stack) = c_stack_len

(***************************************************************************)
(* Taint shadow: Sha3TaintAnalysis (sha3_bypass.rs).                       *)
(***************************************************************************)
\* what one arm of the match of on_step yields
TOk(q) == [fatal |-> FALSE, stack |-> q, call |-> FALSE, jumpi |-> FALSE]
\* the callbacks of the shadow, as t_last records them
TLast(arm, ops, at) == [arm |-> arm, ops |-> ops, pc |-> at]
\* the program counters of the JUMPI instructions of the contract
JumpiPcs == {100, 101}
TPanic == [fatal |-> TRUE, stack |-> <<>>, call |-> FALSE, jumpi |-> FALSE]

\* some of the top n entries of q is tainted
AnyDirty(q, n) == \E i \in (Len(q) - n + 1)..Len(q) : q[i]

\* pop_push! that keeps the bit of the last entry popped only
pop_push_last_popped(q, pop_cnt, push_cnt) ==
    IF Len(q) < pop_cnt THEN TPanic
    ELSE TOk(PopN(q, pop_cnt) \o [i \in 1..push_cnt |-> q[Len(q) - pop_cnt + 1]])

\* pop_push!: pop with expect, push the disjunction of what was popped
pop_push(q, pop_cnt, push_cnt) ==
    IF Len(q) < pop_cnt THEN TPanic
    ELSE TOk(PopN(q, pop_cnt) \o [i \in 1..push_cnt |-> AnyDirty(q, pop_cnt)])

\* stack_pop_n!: pop with expect
stack_pop_n(q, pop_cnt) == IF Len(q) < pop_cnt THEN TPanic ELSE TOk(PopN(q, pop_cnt))

\* stack_pop_n! and then push of a given bit
pop_n_push(q, pop_cnt, bit) ==
    IF Len(q) < pop_cnt THEN TPanic ELSE TOk(Append(PopN(q, pop_cnt), bit))

\* the arm of the match of on_step an opcode selects, with its operand counts
TaintMatch(op) ==
    CASE op \in {\h00, \h5b, \hfd, \hfe, \hff} -> Arm("nothing", 0, 0)
      [] op \in (\h01..\h07) \cup {\h0a, \h0b} \cup (\h10..\h14) \cup (\h16..\h18)
                 \cup (\h1a..\h1d) -> Arm("pop_push", 2, 1)
      [] op \in {\h08, \h09} -> Arm("pop_push", 3, 1)
      [] op \in {\h15, \h19, \h31} -> Arm("pop_push", 1, 1)
      [] op = \h20 -> Arm("sha3", 2, 1)
      [] op \in {\h30, \h32, \h33, \h34, \h36, \h38, \h3a, \h3d} \cup (\h41..\h48)
                 \cup (\h58..\h5a) \cup (\h5f..\h7f) -> Arm("push_false", 0, 1)
      [] op = \h35 -> Arm("calldataload", 1, 1)
      [] op \in {\h37, \h39, \h3c, \h3e} -> Arm("setup_mem", 3, 0)
      [] op \in {\h3b, \h3f} -> Arm("pop_n_push_false", 1, 1)
      [] op \in {\h50, \h56} -> Arm("pop", 1, 0)
      [] op \in {\h51, \h54} -> Arm("load", 1, 1)
      [] op \in {\h52, \h53} -> Arm("stack_pop_n", 2, 0)
      [] op = \h55 -> Arm("sstore", 2, 0)
      [] op = \h57 -> Arm("jumpi", 2, 0)
      [] op \in \h80..\h8f -> Arm("dup", op - \h80 + 1, 1)
      [] op \in \h90..\h9f -> Arm("swap", op - \h90 + 2, 0)
      [] op \in \ha0..\ha4 -> Arm("stack_pop_n", op - \ha0 + 2, 0)
      [] op = \hf0 -> Arm("pop_n_push_false", 3, 1)
      [] op \in {\hf1, \hf2} -> Arm("call", 7, 1)
      [] op = \hf3 -> Arm("stack_pop_n", 2, 0)
      [] op \in {\hf4, \hfa} -> Arm("call", 6, 1)
      [] op = \hf5 -> Arm("pop_n_push_false", 4, 1)
      [] OTHER -> Arm("unknown", 0, 0)

\* the steps of the opcode stream as the taint shadow and the interpreter tell
\* them apart
TaintSteps ==
    { [m |-> TaintMatch(op), eff |-> EvmEffect(op), halt |-> HaltOf(op)] :
        op \in Opcodes }

\* the inputs of one step: the bit dirty_memory or dirty_storage holds; the offset
\* of a CALLDATALOAD is zero; a read runs past the end of the vector it indexes
DefaultTaintIn == [bit |-> FALSE, zero |-> FALSE, oob |-> FALSE, pc |-> 0]
TaintInputs(m, depth) ==
    CASE m.arm = "load" -> { [DefaultTaintIn EXCEPT !.bit = b] : b \in BOOLEAN }
      [] m.arm = "calldataload" /\ depth > 0 ->
            { [DefaultTaintIn EXCEPT !.bit = b] : b \in BOOLEAN }
                \cup { [DefaultTaintIn EXCEPT !.zero = TRUE],
                       [DefaultTaintIn EXCEPT !.oob = TRUE] }
      [] m.arm = "call" -> { [DefaultTaintIn EXCEPT !.oob = b] : b \in BOOLEAN }
      [] m.arm = "jumpi" -> { [DefaultTaintIn EXCEPT !.pc = p] : p \in JumpiPcs }
      [] OTHER -> { DefaultTaintIn }

\* a hash that passes the taint of its operands on
Sha3ArmPropagates(q) == pop_push(q, 2, 1)

\* the arm of SHA3: stack_pop_n!(2), then push(true)
Sha3Arm(q) == pop_n_push(q, 2, TRUE)

\* a branch that reads the taint of the jump target
JumpiTarget(q) == q[Len(q)]

\* the arm of JUMPI: the second pop yields the taint of the condition
JumpiCondition(q) == q[Len(q) - 1]

\* the body of the arm m, on the taint stack q at call depth `depth`
TaintArm(m, q, depth, in) ==
    CASE m.arm = "push_false" -> TOk(Append(q, FALSE))
      [] m.arm = "pop_push" -> pop_push(q, m.n, m.m)
      [] m.arm = "nothing" -> TOk(q)
      [] m.arm = "stack_pop_n" -> stack_pop_n(q, m.n)
      [] m.arm = "setup_mem" -> stack_pop_n(q, 3)
      [] m.arm = "pop_n_push_false" -> pop_n_push(q, m.n, FALSE)
      [] m.arm = "sha3" -> Sha3Arm(q)
      [] m.arm = "pop" -> TOk(PopN(q, 1))
      [] m.arm = "load" -> TOk(Append(PopN(q, 1), in.bit))
      [] m.arm = "calldataload" ->
            IF depth > 0 /\ ~in.zero
            THEN (IF in.oob THEN TPanic ELSE TOk(Append(PopN(q, 1), in.bit)))
            ELSE TOk(Append(PopN(q, 1), FALSE))
      [] m.arm = "sstore" -> stack_pop_n(PopN(q, 1), 1)
      [] m.arm = "jumpi" ->
            IF Len(PopN(q, 1)) < 1 THEN TPanic
            ELSE [TOk(PopN(q, 2)) EXCEPT !.jumpi = JumpiCondition(q)]
      [] m.arm = "dup" ->
            IF Len(q) < m.n THEN TPanic ELSE TOk(Append(q, q[Len(q) - m.n + 1]))
      [] m.arm = "swap" ->
            IF Len(q) < m.n THEN TPanic
            ELSE TOk([q EXCEPT ![Len(q) - m.n + 1] = q[Len(q)],
                               ![Len(q)] = q[Len(q) - m.n + 1]])
      [] m.arm = "call" ->
            \* push_ctx: write_input indexes dirty_memory
            IF Len(q) < m.n \/ in.oob THEN TPanic
            ELSE [TOk(Append(PopN(q, m.n), FALSE)) EXCEPT !.call = TRUE]
      [] OTHER -> TPanic

\* a panic of the shadow ends the process
TaintPanic ==
    /\ taint_fatal' = TRUE
    /\ dirty_stack' = <<>>
    /\ taint_ctxs' = <<>>
    /\ t_stack_len' = 0
    /\ t_frames' = <<>>
    /\ t_halt_op' = -1
    /\ t_last' = TLast("panic", <<>>, 0)
    /\ UNCHANGED tainted_jumpi

\* on_step on one opcode, and the interpreter executing it
TaintOnStep(step, in) ==
    LET eff == step.eff
        a == TaintArm(step.m, dirty_stack, Len(taint_ctxs), in)
    IN  /\ ~taint_fatal
        /\ t_halt_op = -1
        /\ t_stack_len >= eff.need
        /\ SumSeq(t_frames) + t_stack_len - eff.pop + eff.push <= MaxStack
        /\ IF t_stack_len # Len(dirty_stack) \/ a.fatal
           THEN \* the assert_eq! that opens on_step, or a panic of the arm
                TaintPanic
           ELSE /\ tainted_jumpi' =
                       IF a.jumpi THEN tainted_jumpi \cup {<<CodeAddr, in.pc>>}
                       ELSE tainted_jumpi
                /\ t_last' =
                       TLast(step.m.arm,
                             IF step.m.arm \in {"sha3", "jumpi"}
                             THEN <<dirty_stack[Len(dirty_stack)],
                                    dirty_stack[Len(dirty_stack) - 1]>>
                             ELSE <<>>,
                             in.pc)
                /\ IF a.call
                   THEN \* push_ctx and cleanup; the interpreter enters the callee
                        /\ taint_ctxs' = Append(taint_ctxs, [dirty_stack |-> a.stack])
                        /\ dirty_stack' = <<>>
                        /\ t_frames' = Append(t_frames, t_stack_len - eff.pop + eff.push)
                        /\ t_stack_len' = 0
                   ELSE /\ dirty_stack' = a.stack
                        /\ t_stack_len' = t_stack_len - eff.pop + eff.push
                        /\ UNCHANGED <<taint_ctxs, t_frames>>
                /\ t_halt_op' = step.halt
                /\ taint_fatal' = FALSE

\* on_return: the callee has halted, pop_ctx restores the shadow of the caller
TaintOnReturn ==
    /\ ~taint_fatal
    /\ t_halt_op # -1
    /\ t_frames # <<>>
    /\ IF taint_ctxs = <<>>
       THEN TaintPanic
       ELSE /\ dirty_stack' = taint_ctxs[Len(taint_ctxs)].dirty_stack
            /\ taint_ctxs' = PopN(taint_ctxs, 1)
            /\ t_stack_len' = t_frames[Len(t_frames)]
            /\ t_frames' = PopN(t_frames, 1)
            /\ t_halt_op' = -1
            /\ t_last' = TLast("on_return", <<>>, 0)
            /\ UNCHANGED <<tainted_jumpi, taint_fatal>>

\* cleanup before the next execution, once the outermost frame has halted
TaintCleanup ==
    /\ ~taint_fatal
    /\ t_halt_op # -1
    /\ t_frames = <<>>
    /\ dirty_stack' = <<>>
    /\ t_stack_len' = 0
    /\ t_halt_op' = -1
    /\ t_last' = TLast("cleanup", <<>>, 0)
    /\ UNCHANGED <<taint_ctxs, tainted_jumpi, t_frames, taint_fatal>>

(***************************************************************************)
(* SpecTaint: every opcode stream, within the bounds.                      *)
(***************************************************************************)
TaintStep ==
    /\ \E step \in TaintSteps :
         \E in \in TaintInputs(step.m, Len(taint_ctxs)) : TaintOnStep(step, in)
    /\ UNCHANGED not_taint_vars

TaintReturn == TaintOnReturn /\ UNCHANGED not_taint_vars

TaintRestart == TaintCleanup /\ UNCHANGED not_taint_vars

NextTaint == TaintStep \/ TaintReturn \/ TaintRestart

SpecTaint == Init /\ [][NextTaint]_vars

\* C2: while a frame runs, the taint stack is as long as the concrete stack of the
\* frame, so that the assert_eq! that opens the next on_step holds.
C2_TaintStackLength ==
    (~taint_fatal /\ t_halt_op = -1) => Len(dirty_stack) = t_stack_len

\* the last callback was on_step on the opcode of the arm, and did not panic
TaintStepped(arm) == t_last.arm = arm /\ ~taint_fatal

\* C18: whatever the taint of the two operands SHA3 consumes, the step replaces
\* them by one entry, and that entry is tainted.
C18_HashTainted ==
    [][ TaintStepped("sha3")' =>
            dirty_stack' = Append(SubSeq(dirty_stack, 1, Len(dirty_stack) - 2), TRUE)
      ]_vars

\* a hash of two untainted operands
C18_Witness ==
    /\ TaintStepped("sha3")
    /\ t_last.ops = <<FALSE, FALSE>>
    /\ dirty_stack = <<FALSE, TRUE>>

\* C19: a JUMPI step adds (contract address, program counter) to tainted_jumpi
\* exactly when the second entry from the top, the condition, is tainted, whatever
\* the taint of the top entry, the target; no other callback changes the set, and
\* nothing ever removes an element from it.
C19_TaintedBranches ==
    [][ /\ tainted_jumpi \subseteq tainted_jumpi'
        /\ TaintStepped("jumpi")' =>
              tainted_jumpi' =
                  IF dirty_stack[Len(dirty_stack) - 1]
                  THEN tainted_jumpi \cup {<<CodeAddr, t_last'.pc>>}
                  ELSE tainted_jumpi
        /\ ~TaintStepped("jumpi")' => tainted_jumpi' = tainted_jumpi
      ]_vars

\* a branch at 101 on a tainted target and an untainted condition, after the
\* branch at 100 was recorded: 100 is still in the set, 101 is not
C19_Witness ==
    /\ TaintStepped("jumpi")
    /\ t_last.pc = 101
    /\ t_last.ops = <<TRUE, FALSE>>
    /\ tainted_jumpi = {<<CodeAddr, 100>>}

(***************************************************************************)
(* Suspension and resumption of one frame: SinglePostExecution::from_interp *)
(* and get_interpreter, and the interpreter creation of execute_from_pc    *)
(* when a continuation is supplied (vm.rs).  Memory is a sequence of bytes; *)
(* the byte at offset i is the element i + 1.                              *)
(***************************************************************************)
\* SpecResume: bytes of interpreter memory
MaxMem == 3
\* SpecResume: instructions one frame executes
MaxPc == 3
\* SpecResume: bytes of the return payload handed to a resumption
MaxPayload == 2

MemBytes == {0, 7}
Min(a, b) == IF a < b THEN a ELSE b

\* a capture that takes the window arguments in the other order
from_interp_swapped(interp, out) ==
    [program_counter |-> interp.program_counter,
     memory |-> interp.memory,
     stack |-> interp.stack,
     is_static |-> interp.is_static,
     input |-> interp.input,
     code_address |-> interp.code_address,
     address |-> interp.address,
     caller |-> interp.caller,
     value |-> interp.value,
     output_len |-> out[1],
     output_offset |-> out[2]]

\* SinglePostExecution::from_interp
from_interp(interp, out) ==
    [program_counter |-> interp.program_counter,
     memory |-> interp.memory,
     stack |-> interp.stack,
     is_static |-> interp.is_static,
     input |-> interp.input,
     code_address |-> interp.code_address,
     address |-> interp.address,
     caller |-> interp.caller,
     value |-> interp.value,
     output_len |-> out[2],
     output_offset |-> out[1]]

\* SinglePostExecution::get_call_ctx
get_call_ctx(pe) ==
    [address |-> pe.address, caller |-> pe.caller, apparent_value |-> pe.value,
     code_address |-> pe.code_address]

\* the loop of get_interpreter that pushes the captured words on a new stack
RECURSIVE PushEach(_, _)
PushEach(stack, words) ==
    IF words = <<>> THEN stack ELSE PushEach(Append(stack, Head(words)), Tail(words))

\* SinglePostExecution::get_interpreter
get_interpreter(pe) ==
    LET ctx == get_call_ctx(pe)
    IN  [program_counter |-> pe.program_counter,
         memory |-> pe.memory,
         stack |-> PushEach(<<>>, pe.stack),
         is_static |-> pe.is_static,
         input |-> pe.input,
         code_address |-> ctx.code_address,
         address |-> ctx.address,
         caller |-> ctx.caller,
         value |-> ctx.apparent_value,
         return_data_buffer |-> <<>>]

\* Memory::resize to hold [offset, offset + len): new bytes are zero
MemoryResize(mem, offset, len) ==
    IF offset + len <= Len(mem) THEN mem
    ELSE mem \o [i \in 1..(offset + len - Len(mem)) |-> 0]

\* a set that takes its range whatever it copies
MemorySetChecked(mem, index, bytes) ==
    IF index + Len(bytes) > Len(mem) THEN [ok |-> FALSE, mem |-> mem]
    ELSE [ok |-> TRUE,
          mem |-> [i \in 1..Len(mem) |->
                      IF i > index /\ i <= index + Len(bytes)
                      THEN bytes[i - index] ELSE mem[i]]]

\* interp.memory.set: copies bytes to [index, index + len); nothing to copy is
\* no access, a range outside the memory panics
MemorySet(mem, index, bytes) ==
    IF bytes = <<>> THEN [ok |-> TRUE, mem |-> mem]
    ELSE IF index + Len(bytes) > Len(mem) THEN [ok |-> FALSE, mem |-> mem]
    ELSE [ok |-> TRUE,
          mem |-> [i \in 1..Len(mem) |->
                      IF i > index /\ i <= index + Len(bytes)
                      THEN bytes[i - index] ELSE mem[i]]]

\* a payload that keeps the selector
SliceFromStart(call_data) == call_data

\* data.slice(4..)
SliceFrom4(call_data) == SubSeq(call_data, 5, Len(call_data))

\* execute_from_pc, "Create the interpreter", with post_exec = Some(pe)
ResumeInterpreter(pe, call_data) ==
    IF Len(call_data) < 4
    THEN \* Bytes::slice panics on a range that starts past the end
         [ok |-> FALSE, interp |-> get_interpreter(pe)]
    ELSE LET i0 == get_interpreter(pe)
             buf == SliceFrom4(call_data)
             target_len == Min(pe.output_len, Len(buf))
             set == MemorySet(i0.memory, pe.output_offset, SubSeq(buf, 1, target_len))
         IN  [ok |-> set.ok,
              interp |-> [i0 EXCEPT !.return_data_buffer = buf, !.memory = set.mem]]

\* the call data a resumption may be handed: too short for a selector, or a
\* zero selector and a return payload
Payloads == UNION { [1..n -> MemBytes] : n \in 0..MaxPayload }
ResumeData == { <<>>, <<0, 0>> } \cup { <<0, 0, 0, 0>> \o p : p \in Payloads }

\* a new transaction starts a frame
ResumeFresh(static) ==
    /\ r_phase' = "running"
    /\ r_interp' = NewInterpreter(static)
    /\ r_leak' = None
    /\ r_call' = None
    /\ r_data' = None
    /\ r_fatal' = FALSE

\* the frame stores a byte (MSTORE8): memory grows to hold it
InterpStore(offset, byte) ==
    /\ ~r_fatal /\ r_phase \in {"running", "resumed"}
    /\ r_interp.program_counter < MaxPc
    /\ offset < MaxMem
    /\ r_interp' =
          [r_interp EXCEPT
              !.program_counter = @ + 1,
              !.memory = MemorySet(MemoryResize(@, offset, 1), offset, <<byte>>).mem]
    /\ r_phase' = "running"
    /\ UNCHANGED <<r_leak, r_call, r_data, r_fatal>>

\* the frame pushes a word
InterpPush(word) ==
    /\ ~r_fatal /\ r_phase \in {"running", "resumed"}
    /\ r_interp.program_counter < MaxPc
    /\ Len(r_interp.stack) < 2
    /\ r_interp' = [r_interp EXCEPT !.program_counter = @ + 1,
                                    !.stack = Append(@, word)]
    /\ r_phase' = "running"
    /\ UNCHANGED <<r_leak, r_call, r_data, r_fatal>>

\* the frame calls an address without code, with the memory-out arguments
\* (offset, len): the interpreter has moved past the call and grown the memory
\* to hold a non-empty output window when the host captures the frame
CallNoCode(offset, len) ==
    /\ ~r_fatal /\ r_phase \in {"running", "resumed"}
    /\ r_interp.program_counter < MaxPc
    /\ offset + len <= MaxMem
    /\ LET at_call ==
              [r_interp EXCEPT
                  !.program_counter = @ + 1,
                  !.memory = IF len # 0 THEN MemoryResize(@, offset, len) ELSE @]
       IN  /\ r_interp' = at_call
           /\ r_leak' = Some(from_interp(at_call, <<offset, len>>))
    /\ r_call' = Some([pc |-> r_interp.program_counter, out_offset |-> offset,
                       out_len |-> len, contract |-> r_interp.address])
    /\ r_data' = None
    /\ r_phase' = "leaked"
    /\ UNCHANGED r_fatal

\* execute_from_pc with the captured continuation and the call data `call_data`
ResumeFromPc(call_data) ==
    /\ ~r_fatal /\ r_phase = "leaked"
    /\ LET res == ResumeInterpreter(Unwrap(r_leak), call_data)
       IN  /\ r_fatal' = ~res.ok
           /\ r_interp' = res.interp
    /\ r_data' = Some(call_data)
    /\ r_phase' = "resumed"
    /\ UNCHANGED <<r_leak, r_call>>

(***************************************************************************)
(* SpecResume: a frame that stores, pushes, leaks and is resumed.          *)
(***************************************************************************)
Fresh == (\E static \in BOOLEAN : ResumeFresh(static)) /\ UNCHANGED not_resume_vars

Store ==
    /\ \E offset \in 0..(MaxMem - 1), byte \in MemBytes : InterpStore(offset, byte)
    /\ UNCHANGED not_resume_vars

Push == InterpPush(1) /\ UNCHANGED not_resume_vars

Leak ==
    /\ \E offset \in 0..MaxMem, len \in 0..MaxMem : CallNoCode(offset, len)
    /\ UNCHANGED not_resume_vars

Resume == (\E call_data \in ResumeData : ResumeFromPc(call_data)) /\ UNCHANGED not_resume_vars

NextResume == Fresh \/ Store \/ Push \/ Leak \/ Resume

SpecResume == Init /\ [][NextResume]_vars

(***************************************************************************)
(* Claims about suspension and resumption.                                 *)
(***************************************************************************)
Resumed == r_phase = "resumed" /\ IsSome(r_leak) /\ IsSome(r_data)
Captured == Unwrap(r_leak)
\* the return payload: the call data without its selector
ReturnPayload == SubSeq(Unwrap(r_data), 5, Len(Unwrap(r_data)))
\* the bytes of the payload that fit the output window
Injected == Min(Captured.output_len, Len(ReturnPayload))
InWindow(i, n) == Captured.output_offset < i /\ i <= Captured.output_offset + n

\* C11: an interpreter resumed from a continuation has the captured program
\* counter, stack, static flag, code address, contract address, caller and value;
\* its memory is the captured memory, except that the first
\* min(output_len, payload length) bytes from output_offset on hold the first
\* bytes of the return payload.
C11_ResumeRestores ==
    (Resumed /\ ~r_fatal) =>
        /\ r_interp.program_counter = Captured.program_counter
        /\ r_interp.stack = Captured.stack
        /\ r_interp.is_static = Captured.is_static
        /\ r_interp.code_address = Captured.code_address
        /\ r_interp.address = Captured.address
        /\ r_interp.caller = Captured.caller
        /\ r_interp.value = Captured.value
        /\ Len(r_interp.memory) = Len(Captured.memory)
        /\ \A i \in 1..Len(Captured.memory) :
              r_interp.memory[i] =
                  IF InWindow(i, Injected)
                  THEN ReturnPayload[i - Captured.output_offset]
                  ELSE Captured.memory[i]

\* a payload longer than the window: one byte of it lands in the memory, next to
\* a byte the frame had stored, and one is left out
C11_Witness ==
    /\ Resumed /\ ~r_fatal
    /\ Captured.output_offset = 1 /\ Captured.output_len = 1
    /\ ReturnPayload = <<7, 7>>
    /\ Captured.memory = <<7, 0>>
    /\ r_interp.memory = <<7, 7>>
    /\ r_interp.stack = <<1>>
    /\ r_interp.is_static

Leaked == r_phase = "leaked" /\ IsSome(r_leak) /\ IsSome(r_call)
TheCall == Unwrap(r_call)

\* C12 as stated: the continuation captured at a call of contract A to an address
\* without code records the program counter after the call, the memory-out
\* arguments of the call, and A as its caller.
C12_CallerIsA ==
    Leaked =>
        /\ Captured.program_counter = TheCall.pc + 1
        /\ Captured.output_offset = TheCall.out_offset
        /\ Captured.output_len = TheCall.out_len
        /\ Captured.caller = TheCall.contract

\* C12, amended: the continuation records the program counter after the call and
\* the memory-out arguments of the call; its address and code address are A, and
\* its caller is the caller of the frame of A.
C12_CapturesFrameOfA ==
    Leaked =>
        /\ Captured.program_counter = TheCall.pc + 1
        /\ Captured.output_offset = TheCall.out_offset
        /\ Captured.output_len = TheCall.out_len
        /\ Captured.address = TheCall.contract
        /\ Captured.code_address = TheCall.contract
        /\ Captured.caller = r_interp.caller
        /\ Captured.caller = Sender

\* a call at the second instruction, with a window that differs in offset and length
C12_Witness ==
    /\ Leaked
    /\ TheCall.pc = 1 /\ TheCall.out_offset = 1 /\ TheCall.out_len = 2
    /\ Captured.program_counter = 2
    /\ TheCall.contract = CodeAddr /\ Captured.caller # CodeAddr

EmptyReplay == Resumed /\ Len(Unwrap(r_data)) = 4

\* C13 as stated: a resumption with an empty return payload does not fail and
\* leaves the output window of the memory zero-filled.
C13_WindowZeroFilled ==
    EmptyReplay =>
        /\ ~r_fatal
        /\ \A i \in 1..Len(r_interp.memory) :
              InWindow(i, Captured.output_len) => r_interp.memory[i] = 0

\* C13, amended: a resumption with an empty return payload does not fail and
\* leaves the whole memory as it was captured, the output window included.
C13_MemoryKept ==
    EmptyReplay =>
        /\ ~r_fatal
        /\ r_interp.memory = Captured.memory

\* an empty payload for a window in which the frame had stored a byte
C13_Witness ==
    /\ EmptyReplay /\ ~r_fatal
    /\ Captured.output_offset = 0 /\ Captured.output_len = 2
    /\ r_interp.memory = <<0, 7, 0>>

(***************************************************************************)
(* EVMExecutor::deploy (vm.rs).                                            *)
(***************************************************************************)
\* the addresses a contract may be deployed at
DeployAddrs == Addrs \cup {"A3"}

\* constructor runs: every status; only Return carries the runtime bytecode
DeployOutcomes ==
    { o \in RunOutcomes :
        /\ o.writes = <<>> /\ o.events = NoEvents /\ Len(o.leak) = 1 }

\* host.set_code: the bytecode is registered at the address
SetCode(codes, address, bytecode) ==
    [a \in DOMAIN codes \cup {address} |->
        IF a = address THEN bytecode ELSE codes[a]]

\* a deployment that takes every status is_call_success! accepts
DeployOnAnySuccess(ret) == IsCallSuccess(ret)

\* the test of deploy on the status of the constructor run
DeployOk(ret) == ret = "Return"

\* deploy: one run of the constructor; on Return the returned bytecode is
\* registered at deployed_address and the address is returned, else None
DeployContract(o, deployed_address) ==
    /\ host' = HostRun(host, o)
    /\ IF ~DeployOk(o.ret)
       THEN /\ code' = code
            /\ deploy_res' = Some([address |-> deployed_address, ret |-> o.ret,
                                   output |-> o.output, runs |-> 1,
                                   code_before |-> code, returned |-> None])
       ELSE /\ code' = SetCode(code, deployed_address, o.output)
            /\ deploy_res' = Some([address |-> deployed_address, ret |-> o.ret,
                                   output |-> o.output, runs |-> 1,
                                   code_before |-> code,
                                   returned |-> Some(deployed_address)])

(***************************************************************************)
(* SpecDeploy: deployments, one after the other.                           *)
(***************************************************************************)
Deploy ==
    /\ \E o \in DeployOutcomes, a \in DeployAddrs : DeployContract(o, a)
    /\ UNCHANGED not_deploy_vars

NextDeploy == Deploy

SpecDeploy == Init /\ [][NextDeploy]_vars

Deployed == IsSome(deploy_res)
LastDeploy == Unwrap(deploy_res)
\* the bytecode is registered at the address and nothing else changed
Registered ==
    /\ LastDeploy.address \in DOMAIN code
    /\ code[LastDeploy.address] = LastDeploy.output
    /\ DOMAIN code = DOMAIN LastDeploy.code_before \cup {LastDeploy.address}
    /\ \A a \in DOMAIN LastDeploy.code_before :
          a # LastDeploy.address => code[a] = LastDeploy.code_before[a]

\* C17 as stated: deploy runs the constructor once; it registers the returned
\* bytecode and returns the address exactly when the run ended with a success
\* status; otherwise it returns no address and leaves the code map unchanged.
C17_DeployOnSuccess ==
    Deployed =>
        /\ LastDeploy.runs = 1
        /\ SuccessStatus(LastDeploy.ret) <=>
              (LastDeploy.returned = Some(LastDeploy.address) /\ Registered)
        /\ ~SuccessStatus(LastDeploy.ret) =>
              (LastDeploy.returned = None /\ code = LastDeploy.code_before)

\* C17, amended: deploy runs the constructor once; it registers the returned
\* bytecode and returns the address exactly when the run ended with status
\* Return; on every other status, Stop and SelfDestruct included, it returns no
\* address and leaves the code map unchanged.
C17_DeployOnReturn ==
    Deployed =>
        /\ LastDeploy.runs = 1
        /\ (LastDeploy.ret = "Return") <=>
              (LastDeploy.returned = Some(LastDeploy.address) /\ Registered)
        /\ (LastDeploy.ret # "Return") =>
              (LastDeploy.returned = None /\ code = LastDeploy.code_before)

\* a constructor that stops after one that returned: the second deployment
\* returns no address and the code of the first stays registered
C17_Witness ==
    /\ Deployed
    /\ LastDeploy.ret = "Stop" /\ LastDeploy.returned = None
    /\ LastDeploy.address = "A3"
    /\ "A3" \in DOMAIN code /\ code["A3"] = <<7>>

(***************************************************************************)
(* Bypass observer: Sha3Bypass::on_step (sha3_bypass.rs).  It shares       *)
(* tainted_jumpi with the taint shadow, which has filled it in earlier     *)
(* executions; it runs before the interpreter executes the opcode.         *)
(***************************************************************************)
\* SpecBypass: entries of the concrete stack
MaxWords == 3

JUMPI == \h57
Words == {0, 1, 5}
Seeds == {0, 1}
\* the opcodes of the stream: POP, JUMPI, PUSH1
BypassOps == {\h50, JUMPI, \h60}

\* an overwrite of the top entry, the jump target
TargetIndex(stack_len) == stack_len

\* interp.stack.data[stack_len - 2], counted from 1
ConditionIndex(stack_len) == stack_len - 1

\* Sha3Bypass::on_step
BypassOnStep(stack, op, at, seed, tainted) ==
    IF op = JUMPI /\ <<CodeAddr, at>> \in tainted
    THEN IF Len(stack) < 2
         THEN \* stack_len - 2 is no index of the stack
              [fatal |-> TRUE, stack |-> stack]
         ELSE [fatal |-> FALSE,
               stack |-> [stack EXCEPT ![ConditionIndex(Len(stack))] = (at + seed) % 2]]
    ELSE [fatal |-> FALSE, stack |-> stack]

\* the interpreter executing the opcode; a JUMPI or POP without its operands
\* ends the frame
InterpExec(stack, op, word) ==
    CASE op = \h60 -> Append(stack, word)
      [] op = \h50 -> IF Len(stack) < 1 THEN <<>> ELSE PopN(stack, 1)
      [] op = JUMPI -> IF Len(stack) < 2 THEN <<>> ELSE PopN(stack, 2)

\* on_step on one opcode, and the interpreter executing it
BypassObserve(op, at, word) ==
    /\ ~b_fatal
    /\ op = \h60 => Len(b_stack) < MaxWords
    /\ LET r == BypassOnStep(b_stack, op, at, b_seed, tainted_jumpi)
       IN  /\ b_fatal' = r.fatal
           /\ b_last' = [op |-> op, pc |-> at, before |-> b_stack, after |-> r.stack]
           /\ b_stack' = IF r.fatal THEN <<>> ELSE InterpExec(r.stack, op, word)
    /\ UNCHANGED b_seed

\* the next execution: execute_from_pc takes the randomness of its input
BypassNewRun(seed) ==
    /\ b_seed' = seed
    /\ b_stack' = <<>>
    /\ b_last' = NoStep
    /\ b_fatal' = FALSE

(***************************************************************************)
(* SpecBypass: every stream of the three opcodes, on every set of branches *)
(* the taint shadow may have recorded.                                     *)
(***************************************************************************)
InitBypass ==
    /\ ExecInit /\ ConcolicInit /\ ResumeInit /\ DeployInit /\ BypassInit
    /\ ExprInit /\ ShadowInit /\ SimplifyInit /\ LockstepInit
    /\ HashInit /\ FlowInit
    /\ t_stack_len = 0
    /\ t_frames = <<>>
    /\ t_halt_op = -1
    /\ dirty_stack = <<>>
    /\ taint_ctxs = <<>>
    /\ taint_fatal = FALSE
    /\ t_last = TLast("new", <<>>, 0)
    /\ tainted_jumpi \in SUBSET { <<CodeAddr, p>> : p \in JumpiPcs }

BypassStep ==
    /\ \E op \in BypassOps :
         \E at \in (IF op = JUMPI THEN JumpiPcs ELSE {0}) :
           \E word \in (IF op = \h60 THEN Words ELSE {0}) : BypassObserve(op, at, word)
    /\ UNCHANGED not_bypass_vars

BypassRestart == (\E seed \in Seeds : BypassNewRun(seed)) /\ UNCHANGED not_bypass_vars

NextBypass == BypassStep \/ BypassRestart

SpecBypass == InitBypass /\ [][NextBypass]_vars

Observed == b_last.op # -1 /\ ~b_fatal
Stepped(i) == b_last.after[i]
AtTaintedJumpi == b_last.op = \h57 /\ <<CodeAddr, b_last.pc>> \in tainted_jumpi

\* C20: at a JUMPI whose (address, program counter) is in tainted_jumpi the
\* observer writes (program counter + seed) mod 2 over the second entry from the
\* top, the condition, and leaves every other entry as it was; at a JUMPI that is
\* not in the set and at any other opcode it leaves the stack as it was.
C20_BypassOverwrites ==
    Observed =>
        IF AtTaintedJumpi
        THEN /\ Len(b_last.after) = Len(b_last.before)
             /\ \A i \in 1..Len(b_last.before) :
                   Stepped(i) = IF i = Len(b_last.before) - 1
                                THEN (b_last.pc + b_seed) % 2
                                ELSE b_last.before[i]
        ELSE b_last.after = b_last.before

\* the branch at 100 with seed 1: a condition of 5 under the target 0 becomes 1,
\* the entry below and the target stay
C20_Witness ==
    /\ Observed /\ AtTaintedJumpi
    /\ b_last.pc = 100 /\ b_seed = 1
    /\ b_last.before = <<5, 5, 0>>
    /\ b_last.after = <<5, 1, 0>>

(***************************************************************************)
(* Expressions of the concolic shadow: Expr (expr.rs).  A tree is a record *)
(* of its operator and its optional children.                              *)
(***************************************************************************)
\* ConcolicOp: the variant and its payload
Op(k, a, b) == [k |-> k, a |-> a, b |-> b]
MkExpr(op, lhs, rhs) == [op |-> op, lhs |-> lhs, rhs |-> rhs]
Leaf(op) == MkExpr(op, None, None)

\* stack_bv!: the leaf of a concrete word
EVMU256(w) == Leaf(Op("EVMU256", w, 0))
new_sliced_input(idx) == Leaf(Op("SLICEDINPUT", idx, 0))
new_balance == Leaf(Op("BALANCE", 0, 0))
new_callvalue == Leaf(Op("CALLVALUE", 0, 0))
new_caller == Leaf(Op("CALLER", 0, 0))
sliced_input(start, end) == Leaf(Op("FINEGRAINEDINPUT", start, end))
sym_byte(s) == Leaf(Op("SYMBYTE", s, 0))
const_byte(b) == Leaf(Op("CONSTBYTE", b, 0))

\* box_bv!: a node of two children
box_bv(lhs, rhs, k) == MkExpr(Op(k, 0, 0), Some(lhs), Some(rhs))
concat(lhs, rhs) == box_bv(lhs, rhs, "CONCAT")
\* a node of one child
bvnot(e) == MkExpr(Op("NOT", 0, 0), Some(e), None)
lnot(e) == MkExpr(Op("LNOT", 0, 0), Some(e), None)
Select(high, low, e) == MkExpr(Op("SELECT", high, low), Some(e), None)

\* the operators box_bv! is called with
BinaryOps == {"CONCAT", "DIV", "MUL", "ADD", "SUB", "SDIV", "SMOD", "UREM", "SREM",
              "AND", "OR", "XOR", "SHL", "SHR", "SAR", "LT", "GT", "SLT", "SGT", "EQ"}

\* is_concrete where a node of one child is not handled
RECURSIVE is_concrete_two_children(_)
is_concrete_two_children(e) ==
    CASE IsSome(e.lhs) /\ IsSome(e.rhs) ->
            LET l == is_concrete_two_children(Unwrap(e.lhs))
            IN  IF l = "T" THEN is_concrete_two_children(Unwrap(e.rhs)) ELSE l
      [] ~IsSome(e.lhs) /\ ~IsSome(e.rhs) ->
            CASE e.op.k \in {"EVMU256", "CONSTBYTE"} -> "T"
              [] e.op.k \in {"SLICEDINPUT", "BALANCE", "CALLVALUE", "SYMBYTE",
                             "FINEGRAINEDINPUT", "CALLER"} -> "F"
              [] OTHER -> "P"
      [] OTHER -> "P"

\* is_concrete: "T", "F", or "P" when the evaluation reaches unreachable!()
RECURSIVE Expr_is_concrete(_)
Expr_is_concrete(e) ==
    CASE IsSome(e.lhs) /\ IsSome(e.rhs) ->
            LET l == Expr_is_concrete(Unwrap(e.lhs))
            IN  IF l = "T" THEN Expr_is_concrete(Unwrap(e.rhs)) ELSE l
      [] ~IsSome(e.lhs) /\ ~IsSome(e.rhs) ->
            CASE e.op.k \in {"EVMU256", "CONSTBYTE"} -> "T"
              [] e.op.k \in {"SLICEDINPUT", "BALANCE", "CALLVALUE", "SYMBYTE",
                             "FINEGRAINEDINPUT", "CALLER"} -> "F"
              [] OTHER -> "P"
      [] IsSome(e.lhs) /\ ~IsSome(e.rhs) -> Expr_is_concrete(Unwrap(e.lhs))
      [] OTHER -> "P"

\* depth
RECURSIVE Expr_depth(_)
Expr_depth(e) ==
    IF ~IsSome(e.lhs) /\ ~IsSome(e.rhs) THEN 0
    ELSE LET l == IF IsSome(e.lhs) THEN Expr_depth(Unwrap(e.lhs)) ELSE 0
             r == IF IsSome(e.rhs) THEN Expr_depth(Unwrap(e.rhs)) ELSE 0
         IN  (IF l > r THEN l ELSE r) + 1

\* ConcatOptCtx
ConcatOptCtx(low, high, on_expr) == [low |-> low, high |-> high, on_expr |-> on_expr]
\* merge that takes the right operand as the lower range only
merge_one_order(self, other) ==
    IF other.on_expr # self.on_expr \/ other.on_expr = None \/ self.on_expr = None
    THEN None
    ELSE IF self.low = other.high + 1 THEN Some([self EXCEPT !.low = other.low])
    ELSE None
\* ConcatOptCtx::merge: the merged context, or None when merge is false
merge(self, other) ==
    IF other.on_expr # self.on_expr \/ other.on_expr = None \/ self.on_expr = None
    THEN None
    ELSE IF self.low = other.high + 1 THEN Some([self EXCEPT !.low = other.low])
    ELSE IF self.high + 1 = other.low THEN Some([self EXCEPT !.high = other.high])
    ELSE None

\* the body of the helper where a merged CONCAT hands no context up
SimplifyNode_drops_ctx(op, lhs_info, rhs_info) ==
    LET new_expr == MkExpr(op,
                           IF IsSome(lhs_info) THEN Some(Unwrap(lhs_info).e) ELSE None,
                           IF IsSome(rhs_info) THEN Some(Unwrap(rhs_info).e) ELSE None)
        ctx == ConcatOptCtx(0, 0, None)
    IN  CASE op.k = "CONCAT" ->
                LET m == merge(Unwrap(lhs_info).ctx, Unwrap(rhs_info).ctx)
                IN  IF IsSome(m)
                    THEN [ctx |-> ctx,
                          e |-> MkExpr(Op("SELECT", Unwrap(m).high, Unwrap(m).low),
                                       Unwrap(m).on_expr, None)]
                    ELSE [ctx |-> ctx, e |-> new_expr]
          [] op.k = "SELECT" ->
                [ctx |-> ConcatOptCtx(op.b, op.a, new_expr.lhs), e |-> new_expr]
          [] OTHER -> [ctx |-> ctx, e |-> new_expr]

\* the body of simplify_concat_select_helper on a node, given what the helper
\* returned on its children
SimplifyNode(op, lhs_info, rhs_info) ==
    LET new_expr == MkExpr(op,
                           IF IsSome(lhs_info) THEN Some(Unwrap(lhs_info).e) ELSE None,
                           IF IsSome(rhs_info) THEN Some(Unwrap(rhs_info).e) ELSE None)
        ctx == ConcatOptCtx(0, 0, None)
    IN  CASE op.k = "CONCAT" ->
                LET m == merge(Unwrap(lhs_info).ctx, Unwrap(rhs_info).ctx)
                IN  IF IsSome(m)
                    THEN [ctx |-> Unwrap(m),
                          e |-> MkExpr(Op("SELECT", Unwrap(m).high, Unwrap(m).low),
                                       Unwrap(m).on_expr, None)]
                    ELSE [ctx |-> ctx, e |-> new_expr]
          [] op.k = "SELECT" ->
                [ctx |-> ConcatOptCtx(op.b, op.a, new_expr.lhs), e |-> new_expr]
          [] OTHER -> [ctx |-> ctx, e |-> new_expr]

\* simplify that leaves the CONCAT chain as it is
simplify_keeps_chain(expr) == expr

RECURSIVE simplify_concat_select_helper(_)
simplify_concat_select_helper(expr) ==
    SimplifyNode(expr.op,
                 IF IsSome(expr.lhs)
                 THEN Some(simplify_concat_select_helper(Unwrap(expr.lhs))) ELSE None,
                 IF IsSome(expr.rhs)
                 THEN Some(simplify_concat_select_helper(Unwrap(expr.rhs))) ELSE None)

simplify(expr) == simplify_concat_select_helper(expr).e

\* the nodes of a tree
RECURSIVE Nodes(_)
Nodes(e) ==
    1 + (IF IsSome(e.lhs) THEN Nodes(Unwrap(e.lhs)) ELSE 0)
      + (IF IsSome(e.rhs) THEN Nodes(Unwrap(e.rhs)) ELSE 0)

(***************************************************************************)
(* SpecExpr: every tree the constructors build, within the bounds.  One    *)
(* tree is under construction; is_concrete is applied to it after each     *)
(* constructor.                                                            *)
(***************************************************************************)
\* SpecExpr: depth of the tree under construction
MaxExprDepth == 2

\* the leaves the constructors and stack_bv! make
ExprLeaves ==
    {EVMU256(0), EVMU256(1), new_sliced_input(0), new_balance, new_callvalue,
     new_caller, sliced_input(0, 4), sym_byte(0), const_byte(0)}
\* operators of box_bv! that stand for the twenty: is_concrete and
\* simplify tell CONCAT from the others only
SomeBinaryOps == {"CONCAT", "ADD", "EQ"}

\* a leaf constructor starts a tree
ExprLeaf ==
    /\ \E l \in ExprLeaves :
         /\ ex_tree' = Some(l)
         /\ ex_concrete' = Some(Expr_is_concrete(l))
    /\ UNCHANGED not_expr_vars

\* bvnot, lnot, and the SELECT of insert_256 over the tree
ExprUnary ==
    /\ IsSome(ex_tree)
    /\ Expr_depth(Unwrap(ex_tree)) < MaxExprDepth
    /\ \E t \in {bvnot(Unwrap(ex_tree)), lnot(Unwrap(ex_tree)),
                 Select(7, 0, Unwrap(ex_tree))} :
         /\ ex_tree' = Some(t)
         /\ ex_concrete' = Some(Expr_is_concrete(t))
    /\ UNCHANGED not_expr_vars

\* a constructor of two children over the tree and a leaf, either side
ExprBinary ==
    /\ IsSome(ex_tree)
    /\ Expr_depth(Unwrap(ex_tree)) < MaxExprDepth
    /\ \E k \in SomeBinaryOps, l \in ExprLeaves :
         \E t \in {box_bv(Unwrap(ex_tree), l, k), box_bv(l, Unwrap(ex_tree), k)} :
            /\ ex_tree' = Some(t)
            /\ ex_concrete' = Some(Expr_is_concrete(t))
    /\ UNCHANGED not_expr_vars

\* simplify over the tree
ExprSimplify ==
    /\ IsSome(ex_tree)
    /\ ex_tree' = Some(simplify(Unwrap(ex_tree)))
    /\ ex_concrete' = Some(Expr_is_concrete(simplify(Unwrap(ex_tree))))
    /\ UNCHANGED not_expr_vars

NextExpr == ExprLeaf \/ ExprUnary \/ ExprBinary \/ ExprSimplify

SpecExpr == Init /\ [][NextExpr]_vars

\* every leaf of the tree is a concrete word or a constant byte
RECURSIVE AllLeavesConcrete(_)
AllLeavesConcrete(e) ==
    IF ~IsSome(e.lhs) /\ ~IsSome(e.rhs) THEN e.op.k \in {"EVMU256", "CONSTBYTE"}
    ELSE /\ IsSome(e.lhs) => AllLeavesConcrete(Unwrap(e.lhs))
         /\ IsSome(e.rhs) => AllLeavesConcrete(Unwrap(e.rhs))

\* C30: on every tree the constructors build, is_concrete does not fail and is
\* true exactly when every leaf of the tree is a concrete word or a constant byte;
\* this includes the nodes of one child.
C30_IsConcreteIffLeaves ==
    IsSome(ex_tree) =>
        /\ Unwrap(ex_concrete) # "P"
        /\ (Unwrap(ex_concrete) = "T") <=> AllLeavesConcrete(Unwrap(ex_tree))

\* a node of one child over a node of two children with a symbolic leaf
C30_Witness ==
    /\ IsSome(ex_tree)
    /\ IsSome(Unwrap(ex_tree).lhs) /\ ~IsSome(Unwrap(ex_tree).rhs)
    /\ IsSome(Unwrap(Unwrap(ex_tree).lhs).rhs)
    /\ ~AllLeavesConcrete(Unwrap(ex_tree))
    /\ Unwrap(ex_concrete) = "F"

(***************************************************************************)
(* The two shadows on one opcode stream, with symbolic memory and storage. *)
(* The concrete stack of the frame is kept with its words: the shadows     *)
(* peek offsets, keys and conditions on it.  Vectors of the code are       *)
(* sequences: the byte at index i of a vector is the element i + 1.        *)
(***************************************************************************)
\* the bytes of a word of the model, for the 32 of the code: a memory word is
\* WordBytes cells, a SELECT over a whole word takes the bits WordBits - 1 .. 0
WordBytes == 4
WordBits == WordBytes * 8

\* Vec::resize
Resize(q, n, v) == [i \in 1..n |-> IF i <= Len(q) THEN q[i] ELSE v]
\* HashMap::insert
MapInsert(m, k, v) == [x \in DOMAIN m \cup {k} |-> IF x = k THEN v ELSE m[x]]

\* a result of the shadow code, or its panic
Ok(v) == [panic |-> FALSE, v |-> v]
Panic == [panic |-> TRUE, v |-> None]

\* SymbolicMemory::insert_256
insert_256(memory, idx, val) ==
    LET m == IF idx + WordBytes >= Len(memory)
             THEN Resize(memory, idx + WordBytes + 1, None)
             ELSE memory
    IN  [j \in 1..Len(m) |->
            LET i == j - 1 - idx
            IN  IF 0 <= i /\ i < WordBytes
                THEN Some(Select(WordBits - i * 8 - 1, WordBits - i * 8 - 7 - 1, val))
                ELSE m[j]]

\* the byte of a cell of symbolic memory: an absent cell is the constant byte 0
ByteOf(cell) == IF cell = None THEN const_byte(0) ELSE Unwrap(cell)

\* the CONCAT chain over bytes[from + 1 .. from + n], built from the left,
\* a zero byte for each byte past the end
RECURSIVE ConcatChain(_, _, _)
ConcatChain(bytes, from, n) ==
    IF n = 1 THEN bytes[from + 1]
    ELSE concat(ConcatChain(bytes, from, n - 1),
                IF from + n <= Len(bytes) THEN bytes[from + n] ELSE const_byte(0))

\* SymbolicMemory::get_256: memory[idx + i] is indexed for every i below WordBytes
get_256(memory, idx) ==
    IF idx >= Len(memory) THEN Ok(None)
    ELSE IF idx + WordBytes - 1 >= Len(memory) THEN Panic
    ELSE Ok(Some(simplify(ConcatChain([j \in 1..Len(memory) |-> ByteOf(memory[j])],
                                      idx, WordBytes))))

\* SymbolicMemory::get_slice: the bytes handed out (the vector it resizes is
\* replaced by push_ctx right after)
get_slice(memory, idx, len) ==
    [i \in 1..len |-> IF idx + i <= Len(memory) THEN ByteOf(memory[idx + i])
                      ELSE const_byte(0)]

\* ConcolicHost::get_input_slice_from_ctx: data[idx] is indexed
get_input_slice_from_ctx(ctxs, idx, length) ==
    LET input_data == ctxs[Len(ctxs)].input_bytes
    IN  IF idx >= Len(input_data) THEN Panic
        ELSE Ok(simplify(ConcatChain(input_data, idx, length)))

\* fast_peek!, interp.stack.peek
fast_peek(stack, idx) == stack[Len(stack) - idx]

\* stack_bv! over the symbolic stack q and the concrete stack
stack_bv_at(q, stack, idx) ==
    LET e == q[Len(q) - idx]
    IN  IF e = None THEN EVMU256(fast_peek(stack, idx)) ELSE Unwrap(e)

\* the loop that ends on_step: a concrete result is pushed as an absent slot
PushBv(q, bv) ==
    q \o [i \in 1..Len(bv) |->
            IF IsSome(bv[i]) /\ Expr_is_concrete(Unwrap(bv[i])) = "T" THEN None
            ELSE bv[i]]

\* the offset and the length of the input of a call, on the concrete stack
CallArgs(stack, op) ==
    IF op \in {\hf1, \hf2}
    THEN [offset |-> fast_peek(stack, 3), len |-> fast_peek(stack, 4), need |-> 5]
    ELSE [offset |-> fast_peek(stack, 2), len |-> fast_peek(stack, 3), need |-> 4]

\* ConcolicHost::push_ctx
Concolic_push_ctx(h, stack, op) ==
    LET a == CallArgs(stack, op)
    IN  [h EXCEPT
           !.ctxs = Append(h.ctxs,
                [symbolic_stack |-> h.symbolic_stack,
                 symbolic_memory |-> h.symbolic_memory,
                 symbolic_state |-> h.symbolic_state,
                 input_bytes |-> get_slice(h.symbolic_memory, a.offset, a.len)]),
           !.symbolic_stack = <<>>,
           !.symbolic_memory = <<>>,
           !.symbolic_state = EmptyMap]

\* pop_ctx that goes on when there is no context
Concolic_pop_ctx_lenient(h) ==
    IF h.ctxs = <<>> THEN h
    ELSE LET ctx == h.ctxs[Len(h.ctxs)]
         IN  [h EXCEPT !.ctxs = PopN(h.ctxs, 1),
                       !.symbolic_stack = ctx.symbolic_stack,
                       !.symbolic_memory = ctx.symbolic_memory,
                       !.symbolic_state = ctx.symbolic_state]

\* pop_ctx that leaves the memory of the callee in place
Concolic_pop_ctx_keeps_memory(h) ==
    IF h.ctxs = <<>> THEN [h EXCEPT !.fatal = TRUE]
    ELSE LET ctx == h.ctxs[Len(h.ctxs)]
         IN  [h EXCEPT !.ctxs = PopN(h.ctxs, 1),
                       !.symbolic_stack = ctx.symbolic_stack,
                       !.symbolic_state = ctx.symbolic_state]

\* ConcolicHost::pop_ctx
Concolic_pop_ctx(h) ==
    IF h.ctxs = <<>> THEN [h EXCEPT !.fatal = TRUE]
    ELSE LET ctx == h.ctxs[Len(h.ctxs)]
         IN  [h EXCEPT !.ctxs = PopN(h.ctxs, 1),
                       !.symbolic_stack = ctx.symbolic_stack,
                       !.symbolic_memory = ctx.symbolic_memory,
                       !.symbolic_state = ctx.symbolic_state]

\* the constraint of a JUMPI on the condition expression and its concrete word
JumpiConstraintNegated(cond, word) == IF word = 0 THEN cond ELSE lnot(cond)
JumpiConstraint(cond, word) == IF word = 0 THEN lnot(cond) ELSE cond

\* the key and the value the SSTORE arm takes: the word under the top as the key,
\* the expression of the top as the value
SstoreKey(stack) == fast_peek(stack, 1)
SstoreValue(q, stack) == stack_bv_at(q, stack, 0)

\* the opcodes of the instructions the model runs
PUSH1 == \h60
SHA3 == \h20
CALLDATALOAD == \h35
POP == \h50
MLOAD == \h51
MSTORE == \h52
SLOAD == \h54
SSTORE == \h55
STOP == \h00
CopyOps == {\h37, \h39, \h3c, \h3e}

\* ConcolicHost::on_step: the shadow after the instruction, fatal on a panic.
\* h is the shadow, stack the concrete stack before the instruction executes.
ConcolicHostOnStep(h, stack, ins) ==
    LET q == h.symbolic_stack
        op == ins.op
        Fatal == [h EXCEPT !.fatal = TRUE]
        Done(h2, q2, bv) == [h2 EXCEPT !.symbolic_stack = PushBv(q2, bv)]
    IN  CASE op \in {PUSH1} -> Done(h, q, << None >>)
          [] op = SHA3 -> Done(h, PopN(q, 2), << None >>)
          [] op = CALLDATALOAD ->
                IF stack = <<>> THEN Fatal
                ELSE IF Len(h.ctxs) > 0
                THEN LET r == get_input_slice_from_ctx(h.ctxs, fast_peek(stack, 0), WordBytes)
                     IN  IF r.panic THEN Fatal ELSE Done(h, PopN(q, 1), << Some(r.v) >>)
                ELSE Done(h, PopN(q, 1), << Some(new_sliced_input(fast_peek(stack, 0))) >>)
          [] op \in {\h37, \h39, \h3e} -> Done(h, PopN(q, 3), <<>>)
          [] op = \h3c -> Done(h, PopN(q, 4), <<>>)
          [] op = POP -> Done(h, PopN(q, 1), <<>>)
          [] op = MLOAD ->
                IF stack = <<>> THEN Fatal
                ELSE LET r == get_256(h.symbolic_memory, fast_peek(stack, 0))
                     IN  IF r.panic THEN Fatal ELSE Done(h, PopN(q, 1), << r.v >>)
          [] op = MSTORE ->
                IF Len(stack) < 2 \/ Len(q) < 2 THEN Fatal
                ELSE Done([h EXCEPT !.symbolic_memory =
                              insert_256(h.symbolic_memory, fast_peek(stack, 0),
                                         stack_bv_at(q, stack, 1))],
                          PopN(q, 2), <<>>)
          [] op = SLOAD ->
                IF stack = <<>> THEN Fatal
                ELSE LET key == fast_peek(stack, 0)
                     IN  Done(h, PopN(q, 1),
                              << IF key \in DOMAIN h.symbolic_state
                                 THEN h.symbolic_state[key] ELSE None >>)
          [] op = SSTORE ->
                IF Len(stack) < 2 \/ Len(q) < 1 THEN Fatal
                ELSE Done([h EXCEPT !.symbolic_state =
                              MapInsert(h.symbolic_state, SstoreKey(stack),
                                        Some(SstoreValue(q, stack)))],
                          PopN(q, 2), <<>>)
          [] op = JUMPI ->
                IF Len(stack) < 2 \/ Len(q) < 2 THEN Fatal
                ELSE LET real_path_constraint ==
                             JumpiConstraint(stack_bv_at(q, stack, 1), fast_peek(stack, 1))
                     IN  Done([h EXCEPT !.constraints =
                                  IF Expr_is_concrete(real_path_constraint) # "T"
                                  THEN Append(h.constraints, real_path_constraint)
                                  ELSE h.constraints],
                              PopN(q, 2), <<>>)
          [] op \in CallOps ->
                IF Len(stack) < CallArgs(stack, op).need THEN Fatal
                ELSE Concolic_push_ctx(
                         [h EXCEPT !.symbolic_stack =
                             Append(PopN(q, IF op \in {\hf1, \hf2} THEN 7 ELSE 6), None)],
                         stack, op)
          [] op = STOP -> Done(h, q, <<>>)
          [] OTHER -> Fatal

\* ensure_size!
ensure_size(t, size) == IF Len(t) < size THEN Resize(t, size, FALSE) ELSE t
\* the cells [offset, offset + len) of t set to bit
FillBits(t, offset, len, bit) ==
    [j \in 1..Len(t) |-> IF offset < j /\ j <= offset + len THEN bit ELSE t[j]]
\* some cell of [offset, offset + len) of t is set
AnyBit(t, offset, len) == \E j \in (offset + 1)..(offset + len) : t[j]

\* Sha3TaintAnalysis::write_input, Sha3TaintAnalysisCtx::read_input: the cells are
\* indexed one by one
ReadBits(t, start, length) ==
    IF length > 0 /\ start + length > Len(t) THEN Panic
    ELSE Ok([i \in 1..length |-> t[start + i]])

\* Sha3TaintAnalysis::push_ctx
Taint_push_ctx(t, stack, op) ==
    LET a == CallArgs(stack, op)
        input_data == ReadBits(t.dirty_memory, a.offset, a.len)
    IN  IF Len(stack) < a.need \/ input_data.panic THEN [t EXCEPT !.fatal = TRUE]
        ELSE [t EXCEPT
                !.ctxs = Append(t.ctxs,
                     [input_data |-> input_data.v,
                      dirty_memory |-> t.dirty_memory,
                      dirty_storage |-> t.dirty_storage,
                      dirty_stack |-> t.dirty_stack]),
                !.dirty_memory = <<>>,
                !.dirty_storage = EmptyMap,
                !.dirty_stack = <<>>]

\* pop_ctx that leaves the memory of the callee in place
Taint_pop_ctx_keeps_memory(t) ==
    IF t.ctxs = <<>> THEN [t EXCEPT !.fatal = TRUE]
    ELSE LET ctx == t.ctxs[Len(t.ctxs)]
         IN  [t EXCEPT !.ctxs = PopN(t.ctxs, 1),
                       !.dirty_storage = ctx.dirty_storage,
                       !.dirty_stack = ctx.dirty_stack]

\* Sha3TaintAnalysis::pop_ctx
Taint_pop_ctx(t) ==
    IF t.ctxs = <<>> THEN [t EXCEPT !.fatal = TRUE]
    ELSE LET ctx == t.ctxs[Len(t.ctxs)]
         IN  [t EXCEPT !.ctxs = PopN(t.ctxs, 1),
                       !.dirty_memory = ctx.dirty_memory,
                       !.dirty_storage = ctx.dirty_storage,
                       !.dirty_stack = ctx.dirty_stack]

\* Sha3TaintAnalysis::on_step: the shadow after the instruction, fatal on a panic.
\* t is the shadow, stack the concrete stack before the instruction executes.
Sha3TaintOnStep(t, stack, ins) ==
    LET q == t.dirty_stack
        op == ins.op
        Fatal == [t EXCEPT !.fatal = TRUE]
        Stack(q2) == [t EXCEPT !.dirty_stack = q2]
    IN  IF Len(stack) # Len(q) THEN Fatal    \* assert_eq!
        ELSE
        CASE op = STOP -> t
          [] op = SHA3 -> IF Len(q) < 2 THEN Fatal ELSE Stack(Append(PopN(q, 2), TRUE))
          [] op = CALLDATALOAD ->
                IF Len(t.ctxs) > 0
                THEN IF stack = <<>> THEN Fatal
                     ELSE IF fast_peek(stack, 0) = 0 THEN Stack(Append(PopN(q, 1), FALSE))
                     ELSE LET r == ReadBits(t.ctxs[Len(t.ctxs)].input_data,
                                            fast_peek(stack, 0), WordBytes)
                          IN  IF r.panic THEN Fatal
                              ELSE Stack(Append(PopN(q, 1), AnyBit(r.v, 0, WordBytes)))
                ELSE Stack(Append(PopN(q, 1), FALSE))
          [] op \in CopyOps ->
                \* setup_mem!
                IF Len(q) < 3 THEN Fatal
                ELSE LET mem_offset == fast_peek(stack, 0)
                         len == fast_peek(stack, 2)
                     IN  [t EXCEPT !.dirty_stack = PopN(q, 3),
                                   !.dirty_memory =
                                       FillBits(ensure_size(t.dirty_memory, mem_offset + len),
                                                mem_offset, len, FALSE)]
          [] op = POP -> Stack(PopN(q, 1))
          [] op = MLOAD ->
                IF stack = <<>> THEN Fatal
                ELSE LET mem_offset == fast_peek(stack, 0)
                         m == ensure_size(t.dirty_memory, mem_offset + WordBytes)
                     IN  [t EXCEPT !.dirty_memory = m,
                                   !.dirty_stack =
                                       Append(PopN(q, 1), AnyBit(m, mem_offset, WordBytes))]
          [] op = MSTORE ->
                IF Len(q) < 2 THEN Fatal
                ELSE LET mem_offset == fast_peek(stack, 0)
                         is_dirty == q[Len(q) - 1]
                     IN  [t EXCEPT !.dirty_stack = PopN(q, 2),
                                   !.dirty_memory =
                                       FillBits(ensure_size(t.dirty_memory, mem_offset + WordBytes),
                                                mem_offset, WordBytes, is_dirty)]
          [] op = SLOAD ->
                IF stack = <<>> THEN Fatal
                ELSE LET key == fast_peek(stack, 0)
                     IN  Stack(Append(PopN(q, 1),
                                      IF key \in DOMAIN t.dirty_storage
                                      THEN t.dirty_storage[key] ELSE FALSE))
          [] op = SSTORE ->
                IF Len(q) < 2 THEN Fatal
                ELSE [t EXCEPT !.dirty_stack = PopN(q, 2),
                               !.dirty_storage =
                                   MapInsert(t.dirty_storage, fast_peek(stack, 0),
                                             q[Len(q) - 1])]
          [] op = JUMPI ->
                IF Len(q) < 2 THEN Fatal
                ELSE [t EXCEPT !.dirty_stack = PopN(q, 2),
                               !.tainted_jumpi =
                                   IF q[Len(q) - 1] THEN @ \cup {<<CodeAddr, ins.pc>>}
                                   ELSE @]
          [] op = PUSH1 -> Stack(Append(q, FALSE))
          [] op \in CallOps ->
                LET n == IF op \in {\hf1, \hf2} THEN 7 ELSE 6
                IN  IF Len(q) < n THEN Fatal
                    ELSE Taint_push_ctx(Stack(Append(PopN(q, n), FALSE)), stack, op)
          [] TaintMatch(op).arm \in {"pop_push", "dup", "swap"} ->
                \* the arms that touch dirty_stack only
                LET a == TaintArm(TaintMatch(op), q, Len(t.ctxs), DefaultTaintIn)
                IN  IF a.fatal THEN Fatal ELSE Stack(a.stack)
          [] OTHER -> Fatal

(***************************************************************************)
(* SpecShadow: the interpreter runs blocks of instructions, each           *)
(* instruction observed by both shadows before it executes; a shadow that  *)
(* has panicked observes nothing more.  The host (evm/host.rs) delivers    *)
(* on_return to both once the frame has halted.                            *)
(***************************************************************************)
\* SpecShadow: blocks of instructions of one execution
MaxBlocks == 3
\* SpecShadow: largest offset of a word read in memory and in the call data
MaxOffset == 2

\* an instruction: the opcode, its immediate or the word the interpreter pushes
\* for it, and its program counter
Ins(op, w) == [op |-> op, w |-> w, pc |-> 0]
\* the return hook, as sh_last records it
OnReturn == -2

\* instruction sequences that leave one word on the stack: a constant, a word of
\* the call data, a hash
Const(w) == << Ins(PUSH1, w) >>
Input(o, w) == << Ins(PUSH1, o), Ins(CALLDATALOAD, w) >>
Hash(w) == << Ins(PUSH1, 0), Ins(PUSH1, 0), Ins(SHA3, w) >>
ShadowSrcs == {Const(0), Input(0, 1), Hash(1)}

\* the operands of a call, pushed from the last to the first
CallBlock(op, arg_len) ==
    << Ins(PUSH1, 0), Ins(PUSH1, 0), Ins(PUSH1, arg_len), Ins(PUSH1, 0) >>
    \o (IF op \in {\hf1, \hf2} THEN << Ins(PUSH1, 0) >> ELSE <<>>)
    \o << Ins(PUSH1, 1), Ins(PUSH1, 0), Ins(op, 0) >>
\* the operands of a copy of one word to offset 0
CopyBlock(op) ==
    << Ins(PUSH1, WordBytes), Ins(PUSH1, 0), Ins(PUSH1, 0) >>
    \o (IF op = \h3c THEN << Ins(PUSH1, 1) >> ELSE <<>>)
    \o << Ins(op, 0) >>

\* the blocks a frame is made of: a word left on the stack, a word dropped, a
\* word stored to memory, a word loaded from it, a word loaded and stored
\* back, a word stored to storage, a word loaded from it, a branch, a copy, a
\* call, the end of the frame
ShadowBlocks ==
    ShadowSrcs
    \cup { Input(o, 1) : o \in 1..MaxOffset }
    \cup { << Ins(POP, 0) >> }
    \cup { s \o << Ins(PUSH1, 0), Ins(MSTORE, 0) >> : s \in ShadowSrcs }
    \cup { Input(0, 1) \o << Ins(PUSH1, 1), Ins(MSTORE, 0) >> }
    \cup { << Ins(PUSH1, off), Ins(MLOAD, 0), Ins(POP, 0) >> : off \in 0..MaxOffset }
    \cup { << Ins(PUSH1, 0), Ins(MLOAD, 0), Ins(PUSH1, 0), Ins(MSTORE, 0) >> }
    \cup { s \o << Ins(PUSH1, 2), Ins(SSTORE, 0) >> : s \in ShadowSrcs }
    \cup { << Ins(PUSH1, key), Ins(SLOAD, 0), Ins(POP, 0) >> : key \in {1, 2} }
    \cup { s \o << Ins(PUSH1, 0), [Ins(JUMPI, 0) EXCEPT !.pc = 100] >> :
             s \in ShadowSrcs \cup {Input(0, 0)} }
    \cup { CopyBlock(op) : op \in CopyOps }
    \cup { CallBlock(op, arg_len) : op \in CallOps, arg_len \in {0, WordBytes} }
    \cup { << Ins(STOP, 0) >> }

\* the words a call may leave on the stack of its caller
CallResults == {0, 1}

\* the bytes of memory a copy writes: its destination and its length are the
\* first and the third operand, after the address for EXTCODECOPY
CopyRegion(stack, op) ==
    LET skip == IF op = \h3c THEN 1 ELSE 0
        dest == fast_peek(stack, skip)
        len == fast_peek(stack, skip + 2)
    IN  dest .. (dest + len - 1)
\* the bytes of memory a word at the offset covers
WordRegion(offset) == offset .. (offset + WordBytes - 1)

\* one instruction: on_step of both shadows, then the interpreter executes it
ShadowExec(ins) ==
    LET eff == EvmEffect(ins.op)
    IN  /\ Len(sh_stack) >= eff.need
        /\ ch' = IF ch.fatal THEN ch ELSE ConcolicHostOnStep(ch, sh_stack, ins)
        /\ ta' = IF ta.fatal THEN ta ELSE Sha3TaintOnStep(ta, sh_stack, ins)
        /\ IF ins.op \in CallOps
           THEN \* the interpreter enters the callee
                /\ sh_callers' = Append(sh_callers,
                       [stack |-> PopN(sh_stack, eff.pop), op |-> ins.op,
                        copied |-> sh_copied, ch |-> ch, ta |-> ta])
                /\ sh_stack' = <<>>
           ELSE /\ sh_stack' = PopN(sh_stack, eff.pop) \o [i \in 1..eff.push |-> ins.w]
                /\ UNCHANGED sh_callers
        /\ sh_copied' = CASE ins.op \in CopyOps -> sh_copied \cup CopyRegion(sh_stack, ins.op)
                           [] ins.op = MSTORE -> sh_copied \ WordRegion(fast_peek(sh_stack, 0))
                           [] ins.op \in CallOps -> {}
                           [] OTHER -> sh_copied
        /\ sh_halted' = (ins.op = STOP)
        /\ sh_last' = ins

ShadowOnStep ==
    /\ ~sh_halted
    /\ ~(ch.fatal /\ ta.fatal)
    /\ IF sh_todo = <<>>
       THEN /\ sh_blocks < MaxBlocks
            /\ \E b \in ShadowBlocks : ShadowExec(Head(b)) /\ sh_todo' = Tail(b)
            /\ sh_blocks' = sh_blocks + 1
       ELSE /\ ShadowExec(Head(sh_todo))
            /\ sh_todo' = Tail(sh_todo)
            /\ UNCHANGED sh_blocks
    /\ UNCHANGED not_shadow_vars

\* the host delivers on_return; this model delivers it for the outermost frame
\* as well, where no call opcode pushed a context
ReturnArrives == sh_halted /\ ~(ch.fatal /\ ta.fatal)

ShadowOnReturn ==
    /\ ReturnArrives
    /\ \E ok \in CallResults :
         /\ ch' = IF ch.fatal THEN ch ELSE Concolic_pop_ctx(ch)
         /\ ta' = IF ta.fatal THEN ta ELSE Taint_pop_ctx(ta)
         /\ IF sh_callers = <<>>
            THEN UNCHANGED <<sh_stack, sh_callers, sh_halted, sh_copied>>
            ELSE /\ sh_stack' = Append(sh_callers[Len(sh_callers)].stack, ok)
                 /\ sh_copied' = sh_callers[Len(sh_callers)].copied
                 /\ sh_callers' = PopN(sh_callers, 1)
                 /\ sh_halted' = FALSE
         /\ sh_last' = [Ins(OnReturn, ok) EXCEPT !.pc = Len(sh_callers)]
    /\ UNCHANGED <<sh_todo, sh_blocks>>
    /\ UNCHANGED not_shadow_vars

NextShadow == ShadowOnStep \/ ShadowOnReturn

SpecShadow == Init /\ [][NextShadow]_vars

\* a step of SpecShadow is the instruction or the return hook sh_last' records
StepOf(op) == sh_last'.op = op
\* the concolic shadow observed the step and did not panic on it
ConcolicObserved == ~ch.fatal /\ ~ch'.fatal
TaintObserved == ~ta.fatal /\ ~ta'.fatal
\* q1 is the beginning of q2
IsPrefix(q1, q2) == Len(q1) <= Len(q2) /\ SubSeq(q2, 1, Len(q1)) = q1
\* operands a call opcode takes
CallOperands(op) == IF op \in {\hf1, \hf2} THEN 7 ELSE 6
\* the entry of the call the current frame runs in
Entry == sh_callers[Len(sh_callers)]

\* the condition of the JUMPI about to execute: its expression and its word
CondWord == sh_stack[Len(sh_stack) - 1]
CondExpr ==
    IF ch.symbolic_stack[Len(ch.symbolic_stack) - 1] = None THEN EVMU256(CondWord)
    ELSE Unwrap(ch.symbolic_stack[Len(ch.symbolic_stack) - 1])

\* C21: a JUMPI appends exactly one path constraint when the expression of its
\* condition is not concrete and none when it is; the constraint is the condition
\* when the concrete condition word is not zero and its logical negation when it
\* is zero; no step, call entry and return included, removes or reorders the
\* constraints recorded before it.
C21_PathConstraints ==
    [][/\ IsPrefix(ch.constraints, ch'.constraints)
       /\ (ConcolicObserved /\ ~StepOf(JUMPI)) => ch'.constraints = ch.constraints
       /\ (ConcolicObserved /\ StepOf(JUMPI)) =>
             ch'.constraints =
                IF AllLeavesConcrete(CondExpr) THEN ch.constraints
                ELSE Append(ch.constraints,
                            IF CondWord # 0 THEN CondExpr ELSE lnot(CondExpr))]_vars

\* two branches on the first word of the call data, taken with the word at 1 and
\* then at 0: the condition, then its negation
C21_Witness ==
    /\ sh_last.op = JUMPI
    /\ ~ch.fatal
    /\ ch.constraints = << new_sliced_input(0), lnot(new_sliced_input(0)) >>

\* C22: the return that matches a call entry leaves the symbolic stack, memory
\* and storage as they were at the entry, the stack without the operands of the
\* call and with one absent slot for its result; the contexts of the concolic
\* shadow are as many as the call entries that have not returned.
C22_ConcolicRestore ==
    [][/\ ~ch'.fatal => Len(ch'.ctxs) = Len(sh_callers')
       /\ (ConcolicObserved /\ StepOf(OnReturn)) =>
             /\ sh_callers # <<>>
             /\ ch'.symbolic_stack =
                    Append(PopN(Entry.ch.symbolic_stack, CallOperands(Entry.op)), None)
             /\ ch'.symbolic_memory = Entry.ch.symbolic_memory
             /\ ch'.symbolic_state = Entry.ch.symbolic_state]_vars

\* back in the outermost frame, with the word written to memory before the call
C22_Witness ==
    /\ sh_last.op = OnReturn
    /\ ~ch.fatal
    /\ ch.ctxs = <<>>
    /\ ch.symbolic_stack = << None >>
    /\ Len(ch.symbolic_memory) = WordBytes + 1
    /\ ch.symbolic_memory[1] = Some(Select(WordBits - 1, WordBits - 8, new_sliced_input(0)))

\* C23: the taint shadow pushes a context of its own on each of the four call
\* opcodes and on no other instruction, and pops one on return; the return that
\* matches a call entry leaves the taint stack, memory and storage as they were
\* at the entry, the stack without the operands of the call and with one clean
\* slot for its result; while both shadows run, the taint shadow has as many
\* contexts as the concolic shadow.
C23_TaintContexts ==
    [][/\ (~ta'.fatal /\ ~ch'.fatal) => Len(ta'.ctxs) = Len(ch'.ctxs)
       /\ TaintObserved =>
             Len(ta'.ctxs) = CASE sh_last'.op \in CallOps -> Len(ta.ctxs) + 1
                               [] StepOf(OnReturn) -> Len(ta.ctxs) - 1
                               [] OTHER -> Len(ta.ctxs)
       /\ (TaintObserved /\ StepOf(OnReturn)) =>
             /\ sh_callers # <<>>
             /\ ta'.dirty_stack =
                    Append(PopN(Entry.ta.dirty_stack, CallOperands(Entry.op)), FALSE)
             /\ ta'.dirty_memory = Entry.ta.dirty_memory
             /\ ta'.dirty_storage = Entry.ta.dirty_storage]_vars

\* back in the outermost frame, with the hash written to memory before the call
C23_Witness ==
    /\ sh_last.op = OnReturn
    /\ ~ta.fatal /\ ~ch.fatal
    /\ ta.ctxs = <<>>
    /\ ta.dirty_stack = << FALSE >>
    /\ ta.dirty_memory = [i \in 1..WordBytes |-> TRUE]

\* C24: a return that finds the context stack of a shadow empty leaves that
\* shadow, concolic or taint, in a fatal state, and a shadow in a fatal state
\* does nothing more.
C24_EmptyPopFatal ==
    [][/\ (StepOf(OnReturn) /\ ~ch.fatal /\ ch.ctxs = <<>>) => ch'.fatal
       /\ (StepOf(OnReturn) /\ ~ta.fatal /\ ta.ctxs = <<>>) => ta'.fatal
       /\ ch.fatal => ch' = ch
       /\ ta.fatal => ta' = ta]_vars

\* the return of the outermost frame, which no call opcode entered
C24_Witness ==
    /\ sh_last.op = OnReturn
    /\ sh_last.pc = 0
    /\ sh_blocks = 1
    /\ ch.fatal /\ ch.ctxs = <<>>
    /\ ta.fatal /\ ta.ctxs = <<>>

\* a result slot as on_step pushes it: absent when the expression is concrete
Absentify(e) == IF AllLeavesConcrete(e) THEN None ELSE Some(e)
\* the slot on top of the symbolic stack
TopSlot(q) == q[Len(q)]
\* n bytes at the offset, a zero byte for each byte absent or past the end
PaddedBytes(bytes, offset, n) ==
    [i \in 1..n |-> IF offset + i <= Len(bytes) THEN bytes[offset + i] ELSE const_byte(0)]
\* the word expression of n bytes at the offset
WordAt(bytes, offset) ==
    simplify(ConcatChain(PaddedBytes(bytes, offset, WordBytes), 0, WordBytes))

\* C25: CALLDATALOAD pops one symbolic operand and pushes one result: in the
\* outermost frame the sliced-input leaf of the requested offset; inside a call,
\* for every requested offset, the expression of the bytes of the input of the
\* current context at offset .. offset + WordBytes - 1, the bytes at or past the
\* end of that input reading as constant zero bytes.
C25_CallDataLoad ==
    [][(~ch.fatal /\ StepOf(CALLDATALOAD)) =>
          /\ ~ch'.fatal
          /\ ch'.symbolic_stack =
                Append(PopN(ch.symbolic_stack, 1),
                       IF ch.ctxs = <<>>
                       THEN Some(new_sliced_input(fast_peek(sh_stack, 0)))
                       ELSE Absentify(WordAt(ch.ctxs[Len(ch.ctxs)].input_bytes,
                                             fast_peek(sh_stack, 0))))]_vars

\* the key and the value expression of the SSTORE about to execute: the key is
\* the top of the stack, the value the slot under it
StoredKey == fast_peek(sh_stack, 0)
StoredExpr == stack_bv_at(ch.symbolic_stack, sh_stack, 1)
\* what an SLOAD of the key pushes from a symbolic storage
Loaded(state, key) ==
    IF key \in DOMAIN state /\ state[key] # None THEN Absentify(Unwrap(state[key]))
    ELSE None

\* C26: the symbolic storage is keyed by the concrete storage key: after an
\* SSTORE of a value of expression e at key k, an SLOAD of k in the same frame
\* pushes e (absent when e is concrete), the other keys load what they did, and
\* a key never stored loads absent.
C26_StorageKeyed ==
    [][/\ (ConcolicObserved /\ StepOf(SSTORE)) =>
             \A key \in 0..2 :
                Loaded(ch'.symbolic_state, key) =
                   IF key = StoredKey THEN Absentify(StoredExpr)
                   ELSE Loaded(ch.symbolic_state, key)
       /\ (ConcolicObserved /\ StepOf(SLOAD)) =>
             /\ TopSlot(ch'.symbolic_stack) = Loaded(ch.symbolic_state, fast_peek(sh_stack, 0))
             /\ ch'.symbolic_state = ch.symbolic_state
       /\ (ConcolicObserved /\ ~StepOf(SSTORE) /\ sh_last'.op \notin CallOps
             /\ ~StepOf(OnReturn)) => ch'.symbolic_state = ch.symbolic_state]_vars

\* C27: a word read of the symbolic memory succeeds at every offset and gives
\* the expression of the bytes at offset .. offset + WordBytes - 1, the bytes
\* never written and the bytes past the end of the array reading as zero bytes.
C27_WordReadTotal ==
    [][(~ch.fatal /\ StepOf(MLOAD)) =>
          /\ ~ch'.fatal
          /\ TopSlot(ch'.symbolic_stack) =
                Absentify(WordAt([j \in 1..Len(ch.symbolic_memory) |->
                                     ByteOf(ch.symbolic_memory[j])],
                                 fast_peek(sh_stack, 0)))]_vars

\* C28: a word of expression v written to the symbolic memory and read at the
\* same offset is one SELECT node over all the bits of v, not a chain of
\* CONCAT nodes: each cycle of reading a word and writing it back at its offset
\* adds one node to the expression.
C28_WriteReadOneSelect ==
    [][(ConcolicObserved /\ StepOf(MSTORE)) =>
          LET v == StoredExpr
              offset == fast_peek(sh_stack, 0)
              cell(i) == ch'.symbolic_memory[offset + 1 + i]
              bytes == [j \in 1..Len(ch'.symbolic_memory) |-> ByteOf(ch'.symbolic_memory[j])]
              read == get_256(ch'.symbolic_memory, offset)
          IN  /\ \A i \in 0..(WordBytes - 1) :
                    cell(i) = Some(Select(WordBits - 8 * i - 1, WordBits - 8 * i - 8, v))
              /\ ~read.panic
              /\ read.v = Some(Select(WordBits - 1, 0, v))
              /\ Nodes(Unwrap(read.v)) = Nodes(v) + 1
              /\ Nodes(ConcatChain(bytes, offset, WordBytes)) > Nodes(v) + 1]_vars

\* a word of the call data written, read, written back and read again
C28_Witness ==
    /\ sh_last.op = MLOAD
    /\ ~ch.fatal
    /\ TopSlot(ch.symbolic_stack) =
          Some(Select(WordBits - 1, 0, Select(WordBits - 1, 0, new_sliced_input(0))))

\* C29: after a raw copy (CALLDATACOPY, CODECOPY, EXTCODECOPY, RETURNDATACOPY)
\* has written concrete data to memory, an MLOAD of a word inside the copied
\* bytes pushes an absent slot, whatever the symbolic memory held there before.
C29_CopyCollapses ==
    [][(ConcolicObserved /\ StepOf(MLOAD) /\ WordRegion(fast_peek(sh_stack, 0)) \subseteq sh_copied)
          => TopSlot(ch'.symbolic_stack) = None]_vars

(***************************************************************************)
(* SpecSimplify: simplify (expr.rs) applied to a tree of SELECT and CONCAT *)
(* nodes over two sources, and applied again to its result.                *)
(***************************************************************************)
\* SpecSimplify: bits of a source
SourceBits == 3
\* SpecSimplify: depth of the trees handed to simplify
MaxSimplifyDepth == 3

\* the sources of the SELECT ranges
Sources == {new_sliced_input(0), new_caller}
\* the ranges <<high, low>> of one bit and of two bits of a source
Ranges ==
    { <<i, i>> : i \in 0..(SourceBits - 1) } \cup { <<i + 1, i>> : i \in 0..(SourceBits - 2) }
\* the trees of depth up to n: the sources, the SELECT ranges of the sources,
\* a SELECT of the lowest bit of a tree, the CONCAT of a tree and a range
\* either side
RECURSIVE SimplifyTrees(_)
SimplifyTrees(n) ==
    IF n = 0 THEN Sources
    ELSE IF n = 1
    THEN Sources \cup { Select(r[1], r[2], s) : r \in Ranges, s \in Sources }
    ELSE LET T == SimplifyTrees(n - 1)
             B == SimplifyTrees(1)
         IN  T \cup { Select(0, 0, t) : t \in T }
               \cup { concat(t, b) : t \in T, b \in B }
               \cup { concat(b, t) : t \in T, b \in B }

\* a tree is handed to simplify
SimplifyInput ==
    /\ sx_tree = None
    /\ \E t \in SimplifyTrees(MaxSimplifyDepth) : sx_tree' = Some(t)
    /\ UNCHANGED <<sx_once, sx_twice>>
    /\ UNCHANGED not_simp_vars

\* simplify(expr)
SimplifyOnce ==
    /\ IsSome(sx_tree)
    /\ sx_once = None
    /\ sx_once' = Some(simplify(Unwrap(sx_tree)))
    /\ UNCHANGED <<sx_tree, sx_twice>>
    /\ UNCHANGED not_simp_vars

\* simplify(simplify(expr))
SimplifyTwice ==
    /\ IsSome(sx_once)
    /\ sx_twice = None
    /\ sx_twice' = Some(simplify(Unwrap(sx_once)))
    /\ UNCHANGED <<sx_tree, sx_once>>
    /\ UNCHANGED not_simp_vars

NextSimplify == SimplifyInput \/ SimplifyOnce \/ SimplifyTwice

SpecSimplify == Init /\ [][NextSimplify]_vars

\* e is a SELECT node
IsSelect(e) == e.op.k = "SELECT"
\* two SELECT nodes of one source whose ranges touch, either order
Adjacent(l, r) ==
    /\ IsSelect(l) /\ IsSelect(r)
    /\ l.lhs = r.lhs
    /\ \/ l.op.b = r.op.a + 1
       \/ l.op.a + 1 = r.op.b
\* the SELECT over the union of the ranges of two SELECT nodes of one source
UnionSelect(l, r) ==
    Select(IF l.op.a > r.op.a THEN l.op.a ELSE r.op.a,
           IF l.op.b < r.op.b THEN l.op.b ELSE r.op.b,
           Unwrap(l.lhs))
\* what the claim says of every node of a tree, the operands of a CONCAT taken
\* as simplify leaves them (bottom-up)
RECURSIVE ConcatRule(_)
ConcatRule(e) ==
    /\ IsSome(e.lhs) => ConcatRule(Unwrap(e.lhs))
    /\ IsSome(e.rhs) => ConcatRule(Unwrap(e.rhs))
    /\ e.op.k = "CONCAT" =>
          LET l == simplify(Unwrap(e.lhs))
              r == simplify(Unwrap(e.rhs))
          IN  simplify(e) = IF Adjacent(l, r) THEN UnionSelect(l, r) ELSE concat(l, r)
\* the CONCAT chain of the one-bit ranges of a source from bit `high` down to bit 0
RECURSIVE BitChain(_, _)
BitChain(s, high) ==
    IF high = 0 THEN Select(0, 0, s)
    ELSE concat(Select(high, high, s), BitChain(s, high - 1))

\* C31: simplify replaces a CONCAT of two SELECT ranges by one SELECT over the
\* union of the ranges exactly when the two select from the same source and the
\* ranges are bit-adjacent, in either order; the operands are simplified first, so
\* a chain of adjacent ranges of one source collapses to one SELECT; a CONCAT of
\* different sources or of ranges that do not touch stays a CONCAT.
C31_ConcatOfSelects ==
    IsSome(sx_once) =>
        /\ ConcatRule(Unwrap(sx_tree))
        /\ \A s \in Sources :
              Unwrap(sx_tree) = BitChain(s, MaxSimplifyDepth - 1)
                 => Unwrap(sx_once) = Select(MaxSimplifyDepth - 1, 0, s)
        /\ (Unwrap(sx_tree).op.k = "CONCAT" /\ ~IsSelect(Unwrap(sx_once)))
              => Unwrap(sx_once).op.k = "CONCAT"

\* a chain of three ranges of one source, collapsed
C31_Witness ==
    /\ sx_tree = Some(BitChain(new_sliced_input(0), 2))
    /\ sx_once = Some(Select(2, 0, new_sliced_input(0)))

\* C32: simplify is idempotent: simplify(simplify(e)) is structurally equal to
\* simplify(e).
C32_SimplifyIdempotent == IsSome(sx_twice) => sx_twice = sx_once

\* a tree that simplify changed, simplified again
C32_Witness ==
    /\ IsSome(sx_twice)
    /\ sx_once # sx_tree
    /\ Unwrap(sx_once).op.k = "CONCAT"

\* the assignments of bit values to the leaves
Assignments == [Sources -> [1..SourceBits -> {0, 1}]]
\* the bits a tree denotes under an assignment, from bit 0 up: a SELECT takes
\* the bits low..high of its operand, a CONCAT places its left operand in the
\* high-order bits
RECURSIVE Bits(_, _)
Bits(e, env) ==
    CASE e.op.k = "SELECT" -> SubSeq(Bits(Unwrap(e.lhs), env), e.op.b + 1, e.op.a + 1)
      [] e.op.k = "CONCAT" -> Bits(Unwrap(e.rhs), env) \o Bits(Unwrap(e.lhs), env)
      [] OTHER -> env[e]
\* bits of the value of a tree
RECURSIVE Width(_)
Width(e) ==
    CASE e.op.k = "SELECT" -> e.op.a - e.op.b + 1
      [] e.op.k = "CONCAT" -> Width(Unwrap(e.rhs)) + Width(Unwrap(e.lhs))
      [] OTHER -> SourceBits
\* every SELECT of the tree takes bits its operand has
RECURSIVE InRange(_)
InRange(e) ==
    /\ IsSome(e.lhs) => InRange(Unwrap(e.lhs))
    /\ IsSome(e.rhs) => InRange(Unwrap(e.rhs))
    /\ IsSelect(e) => (e.op.b <= e.op.a /\ e.op.a < Width(Unwrap(e.lhs)))

\* C34: simplify preserves meaning: under every assignment of bit values to the
\* leaves, simplify(e) denotes the bits e denotes, a CONCAT placing its left
\* operand in the high-order bits; this includes a CONCAT whose left operand
\* selects the lower of two adjacent ranges and whose right operand the higher.
C34_SimplifyPreservesMeaning ==
    (IsSome(sx_once) /\ InRange(Unwrap(sx_tree))) =>
        /\ InRange(Unwrap(sx_once))
        /\ \A env \in Assignments :
              Bits(Unwrap(sx_once), env) = Bits(Unwrap(sx_tree), env)

\* C36: after every step of the concolic shadow, every slot of the symbolic
\* stack that is present holds an expression that is not concrete: a concrete
\* value is an absent slot, after every opcode, DUP and SWAP included.
C36_PresentSlotsSymbolic ==
    ~concolic_fatal =>
        \A i \in 1..Len(symbolic_stack) :
            IsSome(symbolic_stack[i]) => ~is_concrete(Unwrap(symbolic_stack[i]))

(***************************************************************************)
(* SpecLockstep: one opcode handed to on_step of both shadows, each on a   *)
(* stack that holds the operands of every opcode (SWAP16 takes 17).        *)
(***************************************************************************)
LockSymbolicStack == [i \in 1..17 |-> None]
LockDirtyStack == [i \in 1..17 |-> FALSE]

\* on_step of both shadows on one opcode, in the outermost frame or in a callee
LockstepObserve ==
    /\ \E op \in Opcodes, depth \in {0, 1} :
         /\ lk_op' = op
         /\ lk_depth' = depth
         /\ lk_concolic' =
               ConcolicArm(ConcolicMatch(op), LockSymbolicStack, depth, DefaultIn).fatal
         /\ lk_taint' =
               TaintArm(TaintMatch(op), LockDirtyStack, depth, DefaultTaintIn).fatal
    /\ UNCHANGED not_lock_vars

NextLockstep == LockstepObserve

SpecLockstep == Init /\ [][NextLockstep]_vars

\* C35: the two shadows accept the same opcodes: an opcode one of them
\* processes without a fatal error is processed without a fatal error by the
\* other, MSTORE8, BLOCKHASH and PUSH0 included.
C35_SameOpcodes == lk_op # -1 => (lk_concolic <=> lk_taint)

(***************************************************************************)
(* SpecHash: EVMState::get_hash and EVMState::eq (vm.rs) on two world      *)
(* states.  A HashMap enumerates its entries in an order it does not       *)
(* specify: the order of the slots of each account is chosen with the      *)
(* call.  DefaultHasher is kept as a fold that depends on every word       *)
(* written and on their order.                                             *)
(***************************************************************************)
\* Hasher::write of one word
HashWrite(s, x) == (s * 31 + x + 1) % 65536
RECURSIVE HashAll(_, _)
HashAll(s, ws) == IF ws = <<>> THEN s ELSE HashAll(HashWrite(s, Head(ws)), Tail(ws))
\* an address as the word hashed for it; the order of the addresses
AddrWord(a) == IF a = CodeAddr THEN 1 ELSE 2
\* the storage maps of one account, over two slots
SlotMaps == UNION { [ks -> {1}] : ks \in SUBSET {0, 1} }
\* the enumerations of the entries of a map: every order of its keys
Enumerations(m) ==
    { q \in UNION { [1..n -> DOMAIN m] : n \in {Cardinality(DOMAIN m)} } :
        \A i, j \in DOMAIN q : i # j => q[i] # q[j] }
\* the world states: storage of some of the accounts, and continuations
WorldStates ==
    { [EVMStateNew EXCEPT !.state = st, !.post_execution = pe] :
        st \in UNION { [as -> SlotMaps] : as \in SUBSET Addrs },
        pe \in { <<>>, << [pes |-> << SinglePostExecution(51, 0, 32) >>,
                           must_step |-> FALSE] >> } }
\* the orders in which the slots of each account of a world state may come
SlotOrders(ws) ==
    UNION { { f \in [DOMAIN ws.state -> UNION { Enumerations(ws.state[a]) : a \in DOMAIN ws.state }] :
                \A a \in DOMAIN ws.state : f[a] \in Enumerations(ws.state[a]) } }

\* SinglePostExecution::hash: the words of the fields the model keeps
PeWords(pe) == << pe.program_counter, AddrWord(pe.address), pe.output_len, pe.output_offset >>
RECURSIVE HashPes(_, _)
HashPes(s, pes) ==
    IF pes = <<>> THEN s ELSE HashPes(HashAll(s, PeWords(Head(pes))), Tail(pes))
\* PostExecutionCtx::hash, for each context of post_execution
RECURSIVE HashPostExecution(_, _)
HashPostExecution(s, ctxs) ==
    IF ctxs = <<>> THEN s
    ELSE HashPostExecution(HashPes(s, Head(ctxs).pes), Tail(ctxs))
\* the slots of one account, in the order given
RECURSIVE HashSlots(_, _, _)
HashSlots(s, m, order) ==
    IF order = <<>> THEN s
    ELSE HashSlots(HashWrite(HashWrite(s, Head(order)), m[Head(order)]), m, Tail(order))
\* the accounts sorted by address
SortedAddrs(st) ==
    (IF CodeAddr \in DOMAIN st THEN << CodeAddr >> ELSE <<>>)
    \o (IF NoCodeAddr \in DOMAIN st THEN << NoCodeAddr >> ELSE <<>>)
RECURSIVE HashAccounts(_, _, _, _)
HashAccounts(s, st, addrs, orders) ==
    IF addrs = <<>> THEN s
    ELSE HashAccounts(HashSlots(HashWrite(s, AddrWord(Head(addrs))), st[Head(addrs)],
                                orders[Head(addrs)]),
                      st, Tail(addrs), orders)
\* EVMState::get_hash
get_hash(ws, orders) ==
    HashAccounts(HashPostExecution(0, ws.post_execution), ws.state,
                 SortedAddrs(ws.state), orders)
\* EVMState::eq
EVMState_eq(a, b) == a.state = b.state

\* get_hash of two world states, once
GetHash ==
    /\ hs_a = None
    /\ \E a \in WorldStates, b \in WorldStates :
         \E oa \in SlotOrders(a), ob \in SlotOrders(b) :
            /\ hs_a' = Some(a)
            /\ hs_b' = Some(b)
            /\ hs_hash_a' = get_hash(a, oa)
            /\ hs_hash_b' = get_hash(b, ob)
    /\ UNCHANGED not_hash_vars

NextHash == GetHash

SpecHash == Init /\ [][NextHash]_vars

\* C38: hashing is consistent with equality: two world states that are equal
\* (eq) have equal hashes, whatever their continuation lists and whatever the
\* order in which their storage entries are enumerated.
C38_HashConsistentWithEq ==
    (IsSome(hs_a) /\ EVMState_eq(Unwrap(hs_a), Unwrap(hs_b))) => hs_hash_a = hs_hash_b

\* the taint shadow is about to observe an instruction in step with the
\* interpreter: it has not panicked and its stack is as long as the concrete one
TaintInStep == ~ta.fatal /\ Len(ta.dirty_stack) = Len(sh_stack)
\* the taint of n bytes at the offset, a byte past the end being clean
PaddedTaint(bits, offset, n) ==
    [i \in 1..n |-> IF offset + i <= Len(bits) THEN bits[offset + i] ELSE FALSE]

\* C39: a call entry of the taint shadow succeeds for every argument region
\* (offset, length): the bytes of the region never written to the taint memory
\* are clean in the input of the callee, and the step does not fail because the
\* region lies beyond the taint memory written so far.
C39_TaintCallEntry ==
    [][(TaintInStep /\ sh_last'.op \in CallOps) =>
          /\ ~ta'.fatal
          /\ Len(ta'.ctxs) = Len(ta.ctxs) + 1
          /\ ta'.ctxs[Len(ta'.ctxs)].input_data =
                PaddedTaint(ta.dirty_memory, CallArgs(sh_stack, sh_last'.op).offset,
                            CallArgs(sh_stack, sh_last'.op).len)]_vars

\* C40: CALLDATALOAD of the taint shadow inside a call pushes a tainted slot
\* exactly when one of the bytes offset .. offset + WordBytes - 1 of the input
\* of the current context is tainted, for every offset, 0 included, the bytes
\* past the end of the input being clean; in the outermost frame it pushes a
\* clean slot.
C40_TaintCallDataLoad ==
    [][(TaintInStep /\ StepOf(CALLDATALOAD)) =>
          /\ ~ta'.fatal
          /\ ta'.dirty_stack =
                Append(PopN(ta.dirty_stack, 1),
                       /\ ta.ctxs # <<>>
                       /\ \E i \in 1..WordBytes :
                             PaddedTaint(ta.ctxs[Len(ta.ctxs)].input_data,
                                         fast_peek(sh_stack, 0), WordBytes)[i])]_vars

(***************************************************************************)
(* SpecFlow: the interpreter runs arithmetic, stack, memory, storage and   *)
(* branch instructions, each observed by the taint shadow before it        *)
(* executes.  fl_from follows, by the semantics of the EVM, which words    *)
(* derive from what a SHA3 has pushed.                                     *)
(***************************************************************************)
\* SpecFlow: the deepest stack of the frame
MaxFlowStack == 3
\* SpecFlow: largest memory offset and storage key pushed
MaxFlowOffset == 1

\* arithmetic, comparison, bitwise and shift opcodes
ArithOps == (\h01..\h0b) \cup (\h10..\h1d)
DupOps == \h80..\h8f
SwapOps == \h90..\h9f
\* what a derived word may go through: an arithmetic instruction, a DUP or a
\* SWAP, a store followed by a load
FlowKinds == {"computed", "moved", "loaded"}
\* the program counter of the JUMPI of the contract
FlowPcs == {100}

FlowInstructions ==
    { Ins(PUSH1, w) : w \in 0..MaxFlowOffset }
    \cup { Ins(op, 0) : op \in ArithOps \cup DupOps \cup SwapOps \cup {POP, MLOAD, SLOAD} }
    \cup { Ins(SHA3, 1), Ins(MSTORE, 0), Ins(SSTORE, 0) }
    \cup { [Ins(JUMPI, 0) EXCEPT !.pc = p] : p \in FlowPcs }

\* the stack of the interpreter after the instruction: DUPn copies the n-th word
\* from the top, SWAPn exchanges the top with the word n below it, every other
\* instruction pops its operands and pushes one word
FlowStack(stack, ins, pushed) ==
    LET n == Len(stack)
        eff == EvmEffect(ins.op)
    IN  CASE ins.op \in DupOps -> Append(stack, stack[n - (ins.op - \h80)])
          [] ins.op \in SwapOps ->
                [stack EXCEPT ![n] = stack[n - (ins.op - \h8f)],
                              ![n - (ins.op - \h8f)] = stack[n]]
          [] OTHER -> SubSeq(stack, 1, n - eff.pop) \o [i \in 1..eff.push |-> pushed]

\* the derivation of the word the instruction pushes, and of the memory, the
\* storage and the branches it writes; stack is the stack before it executes
FlowDerive(f, stack, ins) ==
    LET op == ins.op
        d == f.stack
        n == Len(d)
        eff == EvmEffect(op)
        consumed == \E i \in (n - eff.pop + 1)..n : d[i]
        region == WordRegion(fast_peek(stack, 0))
        key == fast_peek(stack, 0)
        pushed == CASE op = SHA3 -> TRUE
                    [] op \in ArithOps -> consumed
                    [] op = MLOAD -> region \cap f.memory # {}
                    [] op = SLOAD -> key \in f.storage
                    [] OTHER -> FALSE
    IN  [stack |-> FlowStack(d, ins, pushed),
         memory |-> IF op = MSTORE
                    THEN (IF d[n - 1] THEN f.memory \cup region ELSE f.memory \ region)
                    ELSE f.memory,
         storage |-> IF op = SSTORE
                     THEN (IF d[n - 1] THEN f.storage \cup {key} ELSE f.storage \ {key})
                     ELSE f.storage,
         branches |-> IF op = JUMPI /\ d[n - 1]
                      THEN f.branches \cup {<<CodeAddr, ins.pc>>} ELSE f.branches]

\* the kind of instruction a derived word goes through, if one does
FlowKind(f, stack, ins) ==
    LET op == ins.op
        d == f.stack
        n == Len(d)
        after == FlowDerive(f, stack, ins).stack
    IN  CASE op \in ArithOps /\ after[Len(after)] -> {"computed"}
          [] op \in DupOps /\ after[Len(after)] -> {"moved"}
          [] op \in SwapOps /\ (d[n] \/ after[n]) -> {"moved"}
          [] op = MLOAD /\ after[Len(after)] -> {"loaded"}
          [] op = SLOAD /\ after[Len(after)] -> {"loaded"}
          [] OTHER -> {}

\* one instruction: on_step of the taint shadow, then the interpreter executes it
FlowStep ==
    /\ ~fl_ta.fatal
    /\ \E ins \in FlowInstructions :
         LET eff == EvmEffect(ins.op)
         IN  /\ Len(fl_stack) >= eff.need
             /\ Len(fl_stack) - eff.pop + eff.push <= MaxFlowStack
             /\ fl_ta' = Sha3TaintOnStep(fl_ta, fl_stack, ins)
             /\ fl_stack' = FlowStack(fl_stack, ins, ins.w)
             /\ fl_from' = FlowDerive(fl_from, fl_stack, ins)
             /\ fl_via' = fl_via \cup FlowKind(fl_from, fl_stack, ins)
    /\ UNCHANGED not_flow_vars

NextFlow == FlowStep

SpecFlow == Init /\ [][NextFlow]_vars

\* the bytes of the taint memory that are set, the keys of the taint storage
\* that are set
DirtyBytes(t) == { i - 1 : i \in { j \in 1..Len(t.dirty_memory) : t.dirty_memory[j] } }
DirtyKeys(t) == { k \in DOMAIN t.dirty_storage : t.dirty_storage[k] }

\* C33: the taint shadow follows the data flow exactly: after every
\* arithmetic, comparison, bitwise, shift, DUP, SWAP, memory and storage
\* instruction it has observed, a stack slot is tainted exactly when the word
\* derives from the word a SHA3 pushed, a byte of memory and a storage key likewise, and
\* the tainted branches are exactly the JUMPI instructions whose condition
\* derived from a hash.
C33_TaintFollowsDataFlow ==
    /\ ~fl_ta.fatal
    /\ fl_ta.dirty_stack = fl_from.stack
    /\ DirtyBytes(fl_ta) = fl_from.memory
    /\ DirtyKeys(fl_ta) = fl_from.storage
    /\ fl_ta.tainted_jumpi = fl_from.branches

\* words derived from a hash have gone through every kind of instruction,
\* memory and storage hold one, and the JUMPI at program counter 100 is recorded
C33_Witness ==
    /\ ~fl_ta.fatal
    /\ fl_via = FlowKinds
    /\ fl_from.memory # {} /\ fl_from.storage # {}
    /\ <<CodeAddr, 100>> \in fl_ta.tainted_jumpi

(***************************************************************************)
(* SpecLive: Spec, where every run_inspect comes to an end: a single       *)
(* execution terminates, so the executor does not stay before a run for    *)
(* ever.                                                                   *)
(***************************************************************************)
SpecLive == Spec /\ WF_vars(Run)

\* the world state execute_abi works on ends with a must-step group
MustStepInput ==
    /\ Len(vm_state.post_execution) > 0
    /\ vm_state.post_execution[Len(vm_state.post_execution)].must_step

\* C37: every call of execute_abi returns after finitely many rounds of its
\* loop: once execute has started on an input, whatever the world state of the
\* input, one with a must-step last group included, the loop reaches a round
\* whose result does not ask for a further step, and execute returns.
C37_ExecuteAbiReturns == (pc = "run") ~> (pc = "idle")

\* the same, for the inputs whose world state does not end with a must-step group
ReturnsWithoutMustStep == (pc = "run" /\ ~MustStepInput) ~> (pc = "idle")

====
